---- MODULE Spec2Model ----
(***************************************************************************)
(* YieldGuard AI: the PulseScore engine (js/risk-core.js) and the exit     *)
(* comparator (js/exit-optimizer.js).                                      *)
(*                                                                         *)
(* Representation of JavaScript numbers.  Scores and penalties are the     *)
(* integers of the code.  Times are integer milliseconds since the epoch.  *)
(* Every other number (confidence, fundingRate, depegRisk, cooldownDays,   *)
(* nav, rates) is held in thousandths: 0.8 is 800, 7 days is 7000.         *)
(* A JavaScript value is a record [t, v]: t is "number", "NaN",            *)
(* "undefined" or "null", and v is the number (0 for the others).          *)
(***************************************************************************)
EXTENDS Integers, Sequences, FiniteSets, TLC

VARIABLES
    pc,            \* position of the caller: "call" before the operation, "done" after;
                   \* "new", "call", "redeemed", "priced", "done" through a comparison
    op,            \* the operation the caller invokes
    now,           \* the clock read by new Date() (ms since the epoch)
    protocolData,  \* argument of calculatePulseScore
    pulse,         \* completion of calculatePulseScore
    scoreArg,      \* argument of getStatusFromScore
    status,        \* completion of getStatusFromScore
    config,        \* argument of new ExitOptimizer
    optimizer,     \* the fields of the ExitOptimizer instance
    amount,        \* argument of calculateRedemptionPath and calculateMarketPath
    redemptionData,  \* the redemption quote passed to calculateRedemptionPath
    redemptionPath,  \* completion of calculateRedemptionPath
    marketData,    \* the market quote passed to calculateMarketPath
    marketPath,    \* completion of calculateMarketPath
    liquidityGain, \* completion of calculateLiquidityGain
    engine,        \* the fields of the RiskCoreEngine instance
    page,          \* the elements of the document the engine looks up, and what they show
    inFlight,      \* invocations of poll waiting for their three fetches
    timers,        \* pending setTimeout(poll, pollingInterval) callbacks
    cycle,         \* the poll cycle that ended last: responses, data, event
    first,         \* what the first of two identical calls returned
    audit,         \* the AuditManager instance, the call made on it and its result
    agent,         \* the NairobiAgent instance and its requests in flight
    handler,       \* the invocations of calculateExit and what they rendered
    sidebar        \* the GlobalNairobiAgent instance and its panel element

scoreVars == <<now, protocolData, pulse, scoreArg, status>>
exitVars ==
    <<config, optimizer, amount, redemptionData, redemptionPath, marketData,
      marketPath, liquidityGain>>
engineVars == <<engine, page, inFlight, timers, cycle, first>>
appVars == <<audit, agent, handler, sidebar>>
vars == <<pc, op, scoreVars, exitVars, engineVars, appVars>>

----------------------------------------------------------------------------
(* JavaScript values and the conversions the code applies to them.         *)

Undefined == [t |-> "undefined", v |-> 0]
Null == [t |-> "null", v |-> 0]
NaN == [t |-> "NaN", v |-> 0]
Num(n) == [t |-> "number", v |-> n]

\* ToNumber: undefined -> NaN, null -> +0, a number is itself.
ToNumber(x) ==
    IF x.t = "number" THEN x
    ELSE IF x.t = "null" THEN Num(0)
    ELSE NaN

\* x < c for a numeric literal c: false whenever ToNumber(x) is NaN.
Lt(x, c) == ToNumber(x).t = "number" /\ ToNumber(x).v < c

\* x > c for a numeric literal c: false whenever ToNumber(x) is NaN.
Gt(x, c) == ToNumber(x).t = "number" /\ ToNumber(x).v > c

\* Math.abs(x)
MathAbs(x) ==
    LET n == ToNumber(x)
    IN  IF n.t = "number" THEN Num(IF n.v < 0 THEN -n.v ELSE n.v) ELSE NaN

\* ToBoolean on the values modelled: 0, NaN, null and undefined are falsy.
Truthy(x) == x.t = "number" /\ x.v # 0

\* a || b
OrElse(a, b) == IF Truthy(a) THEN a ELSE b

\* Completions of a call.
Return(x) == [t |-> "return", v |-> x]
ThrowTypeError == [t |-> "throw", v |-> 0]
NotCalled == [t |-> "none", v |-> 0]

----------------------------------------------------------------------------
(* RiskCoreEngine: PulseScore calculation.                                 *)

\* 1000 * 60 * 60 * 24, the milliseconds of a day.
DayMs == 1000 * 60 * 60 * 24

\* Math.ceil(a / b) for integers a and b > 0.
MathCeilDiv(a, b) == -((-a) \div b)

\* new Date(x).getTime(): undefined gives an Invalid Date (NaN), null gives
\* the epoch, a time value gives itself.
NewDate(x) ==
    IF x.t = "number" THEN x
    ELSE IF x.t = "null" THEN Num(0)
    ELSE NaN

\* The mutant of C4: Math.floor in place of Math.ceil.
daysUntilDate_Floor(dateString, clock) ==
    LET date == NewDate(dateString)
    IN  IF date.t = "number" THEN Num((date.v - clock) \div DayMs) ELSE NaN

\* _daysUntilDate(dateString), with the clock it reads made explicit.
daysUntilDate(dateString, clock) ==
    LET date == NewDate(dateString)
    IN  IF date.t = "number" THEN Num(MathCeilDiv(date.v - clock, DayMs)) ELSE NaN

\* The mutant of C9: <= in place of < at the 7-day threshold.
PendleTemporalPenalty_Inclusive(data, clock) ==
    LET daysToMaturity == daysUntilDate(data.maturityDate, clock)
    IN  IF Lt(daysToMaturity, 1) THEN 30
        ELSE IF Lt(daysToMaturity, 3) THEN 20
        ELSE IF Lt(daysToMaturity, 7 + 1) THEN 10
        ELSE 0

\* Factor 1 for Pendle: the amount subtracted from the score.
PendleTemporalPenalty(data, clock) ==
    LET daysToMaturity == daysUntilDate(data.maturityDate, clock)
    IN  IF Lt(daysToMaturity, 1) THEN 30
        ELSE IF Lt(daysToMaturity, 3) THEN 20
        ELSE IF Lt(daysToMaturity, 7) THEN 10
        ELSE 0

\* The mutant of C5: <= in place of < at every threshold.
FalconTemporalPenalty_Inclusive(data) ==
    LET cooldownDays == data.cooldownDays
    IN  IF Lt(cooldownDays, 3000 + 1) THEN 25
        ELSE IF Lt(cooldownDays, 5000 + 1) THEN 15
        ELSE IF Lt(cooldownDays, 7000 + 1) THEN 5
        ELSE 0

\* Factor 1 for Falcon (cooldownDays in thousandths of a day).
FalconTemporalPenalty(data) ==
    LET cooldownDays == data.cooldownDays
    IN  IF Lt(cooldownDays, 3000) THEN 25
        ELSE IF Lt(cooldownDays, 5000) THEN 15
        ELSE IF Lt(cooldownDays, 7000) THEN 5
        ELSE 0

\* The mutant of C1: the two Ethena sub-penalties joined by else-if, so
\* that they no longer stack.
DepegPenalty_NoStacking(data) ==
    LET fundingRate == MathAbs(data.fundingRate)
        depegRisk == OrElse(data.depegRisk, Num(10))
    IN  IF Gt(fundingRate, 50) THEN 20
        ELSE IF Gt(fundingRate, 20) THEN 10
        ELSE IF Gt(depegRisk, 20) THEN 15
        ELSE IF Gt(depegRisk, 10) THEN 8
        ELSE 0

\* Factor 2 for Ethena (fundingRate and depegRisk in thousandths).
DepegPenalty(data) ==
    LET fundingRate == MathAbs(data.fundingRate)
        depegRisk == OrElse(data.depegRisk, Num(10))
    IN  (IF Gt(fundingRate, 50) THEN 20
         ELSE IF Gt(fundingRate, 20) THEN 10
         ELSE 0)
        +
        (IF Gt(depegRisk, 20) THEN 15
         ELSE IF Gt(depegRisk, 10) THEN 8
         ELSE 0)

\* The mutant of C7: <= in place of < at every threshold.
LivenessPenalty_Inclusive(data) ==
    LET confidence == data.confidence
    IN  IF Lt(confidence, 800 + 1) THEN 30
        ELSE IF Lt(confidence, 900 + 1) THEN 15
        ELSE IF Lt(confidence, 950 + 1) THEN 5
        ELSE 0

\* Factor 3 (confidence in thousandths), inside the !== undefined test.
LivenessPenalty(data) ==
    LET confidence == data.confidence
    IN  IF Lt(confidence, 800) THEN 30
        ELSE IF Lt(confidence, 900) THEN 15
        ELSE IF Lt(confidence, 950) THEN 5
        ELSE 0

\* Math.max(0, Math.min(100, score))
Clamp(score) ==
    LET m == IF score < 100 THEN score ELSE 100
    IN  IF m > 0 THEN m ELSE 0

\* !protocolData
Absent(data) == data.t \in {"null", "undefined"}

\* The mutant of C2: the !protocolData guard left out, so that reading
\* protocolData.protocol of null throws a TypeError.
calculatePulseScore_NoNullGuard(data, clock) ==
    IF Absent(data) THEN ThrowTypeError
    ELSE
        LET s0 == 100
            s1 == IF data.protocol = "Pendle"
                  THEN s0 - PendleTemporalPenalty(data, clock) ELSE s0
            s2 == IF data.protocol = "Falcon"
                  THEN s1 - FalconTemporalPenalty(data) ELSE s1
            s3 == IF data.protocol = "Ethena"
                  THEN s2 - DepegPenalty(data) ELSE s2
            s4 == IF data.confidence # Undefined
                  THEN s3 - LivenessPenalty(data) ELSE s3
        IN  Return(Clamp(s4))

\* The mutant of C6: the protocol === 'Ethena' test left out of factor 2.
calculatePulseScore_DepegForAll(data, clock) ==
    IF Absent(data) THEN Return(0)
    ELSE
        LET s0 == 100
            s1 == IF data.protocol = "Pendle"
                  THEN s0 - PendleTemporalPenalty(data, clock) ELSE s0
            s2 == IF data.protocol = "Falcon"
                  THEN s1 - FalconTemporalPenalty(data) ELSE s1
            s3 == s2 - DepegPenalty(data)
            s4 == IF data.confidence # Undefined
                  THEN s3 - LivenessPenalty(data) ELSE s3
        IN  Return(Clamp(s4))

\* calculatePulseScore(protocolData)
calculatePulseScore(data, clock) ==
    IF Absent(data) THEN Return(0)
    ELSE
        LET s0 == 100
            s1 == IF data.protocol = "Pendle"
                  THEN s0 - PendleTemporalPenalty(data, clock) ELSE s0
            s2 == IF data.protocol = "Falcon"
                  THEN s1 - FalconTemporalPenalty(data) ELSE s1
            s3 == IF data.protocol = "Ethena"
                  THEN s2 - DepegPenalty(data) ELSE s2
            s4 == IF data.confidence # Undefined
                  THEN s3 - LivenessPenalty(data) ELSE s3
        IN  Return(Clamp(s4))

\* The mutant of C3: > in place of >= at every threshold.
getStatusFromScore_Exclusive(score) ==
    IF score > 75
    THEN [status |-> "Safe", color |-> "text-green-400", indicator |-> "status-safe"]
    ELSE IF score > 50
    THEN [status |-> "Monitor", color |-> "text-yellow-400", indicator |-> "status-warning"]
    ELSE IF score > 25
    THEN [status |-> "Warning", color |-> "text-orange-500", indicator |-> "status-warning"]
    ELSE [status |-> "Critical", color |-> "text-red-500", indicator |-> "status-critical"]

\* getStatusFromScore(score)
getStatusFromScore(score) ==
    IF score >= 75
    THEN [status |-> "Safe", color |-> "text-green-400", indicator |-> "status-safe"]
    ELSE IF score >= 50
    THEN [status |-> "Monitor", color |-> "text-yellow-400", indicator |-> "status-warning"]
    ELSE IF score >= 25
    THEN [status |-> "Warning", color |-> "text-orange-500", indicator |-> "status-warning"]
    ELSE [status |-> "Critical", color |-> "text-red-500", indicator |-> "status-critical"]

----------------------------------------------------------------------------
(* ExitOptimizer.  Its numbers are decimal fractions m / 10^e, held as     *)
(* [t |-> "number", m, e] with the trailing zeros of m removed; products,  *)
(* sums and differences are exact (the rounding of IEEE doubles is not     *)
(* modelled).                                                              *)

RECURSIVE Pow10(_)
Pow10(n) == IF n = 0 THEN 1 ELSE 10 * Pow10(n - 1)

RECURSIVE D(_, _)
\* The number m / 10^e.
D(m, e) ==
    IF e > 0 /\ m % 10 = 0 THEN D(m \div 10, e - 1)
    ELSE [t |-> "number", m |-> m, e |-> e]

DUndefined == [t |-> "undefined", m |-> 0, e |-> 0]

\* a * b
DMul(a, b) == D(a.m * b.m, a.e + b.e)

\* a + b
DAdd(a, b) ==
    LET e == IF a.e > b.e THEN a.e ELSE b.e
    IN  D(a.m * Pow10(e - a.e) + b.m * Pow10(e - b.e), e)

\* ToBoolean of a number or undefined.
DTruthy(x) == x.t = "number" /\ x.m # 0

\* a || b
DOrElse(a, b) == IF DTruthy(a) THEN a ELSE b

RECURSIVE Digits(_, _)
\* The n low decimal digits of k, leading zeros kept.
Digits(k, n) == IF n = 0 THEN "" ELSE Digits(k \div 10, n - 1) \o ToString(k % 10)

\* String(x) as a template literal `${x}` produces it.
DToString(x) ==
    LET a == IF x.m < 0 THEN -x.m ELSE x.m
    IN  (IF x.m < 0 THEN "-" ELSE "")
            \o ToString(a \div Pow10(x.e))
            \o (IF x.e = 0 THEN "" ELSE "." \o Digits(a % Pow10(x.e), x.e))

\* new ExitOptimizer(config)
NewExitOptimizer(cfg) ==
    [slippageEstimate |-> DOrElse(cfg.slippageEstimate, D(4, 3)),
     gasEstimate |-> DOrElse(cfg.gasEstimate, D(5, 0)),
     dailyYieldRate |-> DOrElse(cfg.dailyYieldRate, D(24, 3)),
     depegRiskScenarios |-> [best |-> D(0, 0), mid |-> D(5, 3), worst |-> D(2, 2)]]

RedemptionRisks ==
    <<"De-peg exposure during lock-up", "Opportunity cost of capital",
      "Potential protocol changes">>

\* The value of redemptionPath where no path object was returned.
NoPath ==
    [strategy |-> "", amount |-> DUndefined, nav |-> DUndefined,
     finalValue |-> DUndefined, yieldAccrued |-> DUndefined,
     haircut |-> DUndefined, fees |-> DUndefined, cooldownDays |-> DUndefined,
     timeToLiquidity |-> "", risks |-> <<>>]

\* The mutant of C10: the accrued yield left out of finalValue.
calculateRedemptionPath_NoYield(this, amt, data) ==
    IF data.t # "object" THEN [t |-> "throw", v |-> NoPath]
    ELSE
        LET nav == data.nav
            cooldownDays == data.cooldownDays
            yieldAccrued == DMul(DMul(amt, this.dailyYieldRate), cooldownDays)
        IN  [t |-> "return",
             v |-> [strategy |-> "Redemption (Cooldown)",
                    amount |-> amt,
                    nav |-> nav,
                    finalValue |-> DMul(amt, nav),
                    yieldAccrued |-> yieldAccrued,
                    haircut |-> D(0, 0),
                    fees |-> D(0, 0),
                    cooldownDays |-> cooldownDays,
                    timeToLiquidity |-> DToString(cooldownDays) \o " days",
                    risks |-> RedemptionRisks]]

\* calculateRedemptionPath(amount, redemptionData) of the optimizer `this`;
\* reading redemptionData.nav of null or undefined throws a TypeError.
calculateRedemptionPath(this, amt, data) ==
    IF data.t # "object" THEN [t |-> "throw", v |-> NoPath]
    ELSE
        LET nav == data.nav
            cooldownDays == data.cooldownDays
            yieldAccrued == DMul(DMul(amt, this.dailyYieldRate), cooldownDays)
        IN  [t |-> "return",
             v |-> [strategy |-> "Redemption (Cooldown)",
                    amount |-> amt,
                    nav |-> nav,
                    finalValue |-> DAdd(DMul(amt, nav), yieldAccrued),
                    yieldAccrued |-> yieldAccrued,
                    haircut |-> D(0, 0),
                    fees |-> D(0, 0),
                    cooldownDays |-> cooldownDays,
                    timeToLiquidity |-> DToString(cooldownDays) \o " days",
                    risks |-> RedemptionRisks]]

\* a - b
DSub(a, b) ==
    LET e == IF a.e > b.e THEN a.e ELSE b.e
    IN  D(a.m * Pow10(e - a.e) - b.m * Pow10(e - b.e), e)

\* a > b
DGt(a, b) ==
    LET e == IF a.e > b.e THEN a.e ELSE b.e
    IN  a.m * Pow10(e - a.e) > b.m * Pow10(e - b.e)

\* The results of / are fractions n / d with d > 0, or one of the
\* non-finite values: [t, n, d] with t "number", "NaN", "Infinity" or
\* "-Infinity".
\* a / b: x / 0 is Infinity or -Infinity by the sign of x, and 0 / 0 is NaN.
DDiv(a, b) ==
    LET e == IF a.e > b.e THEN a.e ELSE b.e
        n == a.m * Pow10(e - a.e)
        d == b.m * Pow10(e - b.e)
    IN  IF d = 0
        THEN [t |-> IF n = 0 THEN "NaN" ELSE IF n > 0 THEN "Infinity" ELSE "-Infinity",
              n |-> 0, d |-> 1]
        ELSE IF d < 0 THEN [t |-> "number", n |-> -n, d |-> -d]
        ELSE [t |-> "number", n |-> n, d |-> d]

\* Math.abs(q)
QAbs(q) ==
    IF q.t = "-Infinity" THEN [q EXCEPT !.t = "Infinity"]
    ELSE IF q.t = "number" /\ q.n < 0 THEN [q EXCEPT !.n = -q.n]
    ELSE q

\* q * 100
QTimes100(q) == IF q.t = "number" THEN [q EXCEPT !.n = q.n * 100] ELSE q

\* The text of k hundredths, k >= 0.
HundredthsText(k) == ToString(k \div 100) \o "." \o Digits(k % 100, 2)

\* The hundredths nearest to n / d for n >= 0, the larger of two equally near.
NearestHundredths(n, d) ==
    LET r0 == n % d
        d1 == (r0 * 10) \div d
        r1 == (r0 * 10) % d
        d2 == (r1 * 10) \div d
        r2 == (r1 * 10) % d
    IN  (n \div d) * 100 + d1 * 10 + d2 + (IF 2 * r2 >= d THEN 1 ELSE 0)

\* q.toFixed(2): a string; a negative number keeps its sign even when it
\* rounds to zero.
QToFixed2(q) ==
    IF q.t # "number" THEN q.t
    ELSE (IF q.n < 0 THEN "-" ELSE "")
            \o HundredthsText(NearestHundredths(IF q.n < 0 THEN -q.n ELSE q.n, q.d))

\* x.toFixed(2) of a decimal number.
DToFixed2(x) == QToFixed2([t |-> "number", n |-> x.m, d |-> Pow10(x.e)])

MarketRisks ==
    <<"DEX slippage impact", "Gas fee volatility", "Smart contract risk">>

\* The value of marketPath where no path object was returned.
NoMarketPath ==
    [strategy |-> "", amount |-> DUndefined, price |-> DUndefined,
     finalValue |-> DUndefined, slippageLoss |-> DUndefined,
     gasEstimate |-> DUndefined, totalCost |-> DUndefined, haircut |-> "",
     timeToLiquidity |-> "", dex |-> "", liquidity |-> DUndefined,
     risks |-> <<>>]

\* The mutant of C11: the gas cost left out of finalValue.
calculateMarketPath_GasOmitted(this, amt, data) ==
    IF data.t # "object" THEN [t |-> "throw", v |-> NoMarketPath]
    ELSE
        LET price == data.price
            slippageLoss == DMul(DMul(amt, price), this.slippageEstimate)
            finalValue == DSub(DMul(amt, price), slippageLoss)
        IN  [t |-> "return",
             v |-> [strategy |-> "Instant Liquidity (DEX)",
                    amount |-> amt,
                    price |-> price,
                    finalValue |-> finalValue,
                    slippageLoss |-> slippageLoss,
                    gasEstimate |-> this.gasEstimate,
                    totalCost |-> DAdd(slippageLoss, this.gasEstimate),
                    haircut |-> DToFixed2(DMul(this.slippageEstimate, D(100, 0))),
                    timeToLiquidity |-> "2-5 minutes",
                    dex |-> data.dex,
                    liquidity |-> data.liquidity,
                    risks |-> MarketRisks]]

\* calculateMarketPath(amount, marketData) of the optimizer `this`; reading
\* marketData.price of null or undefined throws a TypeError.
calculateMarketPath(this, amt, data) ==
    IF data.t # "object" THEN [t |-> "throw", v |-> NoMarketPath]
    ELSE
        LET price == data.price
            slippageLoss == DMul(DMul(amt, price), this.slippageEstimate)
            finalValue == DSub(DSub(DMul(amt, price), slippageLoss), this.gasEstimate)
        IN  [t |-> "return",
             v |-> [strategy |-> "Instant Liquidity (DEX)",
                    amount |-> amt,
                    price |-> price,
                    finalValue |-> finalValue,
                    slippageLoss |-> slippageLoss,
                    gasEstimate |-> this.gasEstimate,
                    totalCost |-> DAdd(slippageLoss, this.gasEstimate),
                    haircut |-> DToFixed2(DMul(this.slippageEstimate, D(100, 0))),
                    timeToLiquidity |-> "2-5 minutes",
                    dex |-> data.dex,
                    liquidity |-> data.liquidity,
                    risks |-> MarketRisks]]

\* _calculateBreakeven(redemptionPath, marketPath)
calculateBreakeven(redemptionPath_, marketPath_) ==
    LET costOfWaiting == DOrElse(redemptionPath_.yieldAccrued, D(0, 0))
        costOfExiting == marketPath_.totalCost
        breakeven == DDiv(DSub(costOfExiting, costOfWaiting), redemptionPath_.amount)
    IN  QToFixed2(QTimes100(QAbs(breakeven)))

\* scenario.charAt(0).toUpperCase() + scenario.slice(1)
Capitalized(scenario) ==
    CASE scenario = "best" -> "Best"
      [] scenario = "mid" -> "Mid"
      [] scenario = "worst" -> "Worst"

\* The mutant of C14: the de-peg applied to the accrued yield as well.
scenarioAnalysis_YieldStressed(this, redemptionPath_, marketPath_, scenario) ==
    LET depegRisk == this.depegRiskScenarios[scenario]
        redemptionValue ==
            DMul(DAdd(redemptionPath_.amount, redemptionPath_.yieldAccrued),
                 DSub(D(1, 0), depegRisk))
        marketValue == marketPath_.finalValue
    IN  [scenario |-> Capitalized(scenario),
         depegPercent |-> DToFixed2(DMul(depegRisk, D(100, 0))),
         redemptionValue |-> DToFixed2(redemptionValue),
         marketValue |-> DToFixed2(marketValue),
         recommendation |-> IF DGt(redemptionValue, marketValue) THEN "WAIT" ELSE "EXIT_NOW",
         gainLoss |-> DToFixed2(DSub(redemptionValue, marketValue))]

\* _scenarioAnalysis(redemptionPath, marketPath, scenario)
scenarioAnalysis(this, redemptionPath_, marketPath_, scenario) ==
    LET depegRisk == this.depegRiskScenarios[scenario]
        redemptionValue ==
            DAdd(DMul(redemptionPath_.amount, DSub(D(1, 0), depegRisk)),
                 redemptionPath_.yieldAccrued)
        marketValue == marketPath_.finalValue
    IN  [scenario |-> Capitalized(scenario),
         depegPercent |-> DToFixed2(DMul(depegRisk, D(100, 0))),
         redemptionValue |-> DToFixed2(redemptionValue),
         marketValue |-> DToFixed2(marketValue),
         recommendation |-> IF DGt(redemptionValue, marketValue) THEN "WAIT" ELSE "EXIT_NOW",
         gainLoss |-> DToFixed2(DSub(redemptionValue, marketValue))]

NoScenario ==
    [scenario |-> "", depegPercent |-> "", redemptionValue |-> "",
     marketValue |-> "", recommendation |-> "", gainLoss |-> ""]

\* The value of liquidityGain where no comparison was returned.
NoGain ==
    [liquidityGainHours |-> DUndefined, timeUnit |-> "",
     netDifference |-> DUndefined, percentDifference |-> "",
     recommendation |-> "",
     breakeven |-> [depegPercent |-> "", description |-> ""],
     analysis |-> [bestCase |-> NoScenario, midCase |-> NoScenario,
                   worstCase |-> NoScenario]]

\* The mutant of C12: >= in place of > in the recommendation.
calculateLiquidityGain_TieWaits(this, redemptionPath_, marketPath_) ==
    LET cooldownHours == DMul(redemptionPath_.cooldownDays, D(24, 0))
        redemptionValue == redemptionPath_.finalValue
        marketValue == marketPath_.finalValue
        netDifference == DSub(redemptionValue, marketValue)
        recommendation == IF ~DGt(D(0, 0), netDifference) THEN "WAIT" ELSE "EXIT_NOW"
    IN  [liquidityGainHours |-> cooldownHours,
         timeUnit |-> "hours",
         netDifference |-> netDifference,
         percentDifference |-> QToFixed2(QTimes100(DDiv(netDifference, redemptionValue))),
         recommendation |-> recommendation,
         breakeven |->
            [depegPercent |-> calculateBreakeven(redemptionPath_, marketPath_),
             description |-> "De-peg % that makes waiting equal to exiting"],
         analysis |->
            [bestCase |-> scenarioAnalysis(this, redemptionPath_, marketPath_, "best"),
             midCase |-> scenarioAnalysis(this, redemptionPath_, marketPath_, "mid"),
             worstCase |-> scenarioAnalysis(this, redemptionPath_, marketPath_, "worst")]]

\* The mutant of C15: a zero redemption value guarded, the percentage
\* reported as 0.
calculateLiquidityGain_GuardedPercent(this, redemptionPath_, marketPath_) ==
    LET cooldownHours == DMul(redemptionPath_.cooldownDays, D(24, 0))
        redemptionValue == redemptionPath_.finalValue
        marketValue == marketPath_.finalValue
        netDifference == DSub(redemptionValue, marketValue)
        recommendation == IF DGt(netDifference, D(0, 0)) THEN "WAIT" ELSE "EXIT_NOW"
    IN  [liquidityGainHours |-> cooldownHours,
         timeUnit |-> "hours",
         netDifference |-> netDifference,
         percentDifference |->
            IF redemptionValue.m = 0 THEN "0.00"
            ELSE QToFixed2(QTimes100(DDiv(netDifference, redemptionValue))),
         recommendation |-> recommendation,
         breakeven |->
            [depegPercent |-> calculateBreakeven(redemptionPath_, marketPath_),
             description |-> "De-peg % that makes waiting equal to exiting"],
         analysis |->
            [bestCase |-> scenarioAnalysis(this, redemptionPath_, marketPath_, "best"),
             midCase |-> scenarioAnalysis(this, redemptionPath_, marketPath_, "mid"),
             worstCase |-> scenarioAnalysis(this, redemptionPath_, marketPath_, "worst")]]

\* calculateLiquidityGain(redemptionPath, marketPath) of the optimizer `this`
calculateLiquidityGain(this, redemptionPath_, marketPath_) ==
    LET cooldownHours == DMul(redemptionPath_.cooldownDays, D(24, 0))
        redemptionValue == redemptionPath_.finalValue
        marketValue == marketPath_.finalValue
        netDifference == DSub(redemptionValue, marketValue)
        recommendation == IF DGt(netDifference, D(0, 0)) THEN "WAIT" ELSE "EXIT_NOW"
    IN  [liquidityGainHours |-> cooldownHours,
         timeUnit |-> "hours",
         netDifference |-> netDifference,
         percentDifference |-> QToFixed2(QTimes100(DDiv(netDifference, redemptionValue))),
         recommendation |-> recommendation,
         breakeven |->
            [depegPercent |-> calculateBreakeven(redemptionPath_, marketPath_),
             description |-> "De-peg % that makes waiting equal to exiting"],
         analysis |->
            [bestCase |-> scenarioAnalysis(this, redemptionPath_, marketPath_, "best"),
             midCase |-> scenarioAnalysis(this, redemptionPath_, marketPath_, "mid"),
             worstCase |-> scenarioAnalysis(this, redemptionPath_, marketPath_, "worst")]]

\* A config property that is absent.
NoScenarios == [t |-> "undefined", best |-> DUndefined, mid |-> DUndefined, worst |-> DUndefined]

\* The config of the instance exitOptimizer.
InstanceConfig ==
    [slippageEstimate |-> D(4, 3), gasEstimate |-> D(5, 0),
     dailyYieldRate |-> D(24, 3), depegRiskScenarios |-> NoScenarios]

\* The optimizer before its constructor has run.
Unconstructed ==
    [slippageEstimate |-> DUndefined, gasEstimate |-> DUndefined,
     dailyYieldRate |-> DUndefined,
     depegRiskScenarios |-> [best |-> DUndefined, mid |-> DUndefined, worst |-> DUndefined]]

\* A market quote that was not passed.
NoQuote ==
    [t |-> "undefined", price |-> DUndefined, liquidity |-> DUndefined, dex |-> ""]

\* Before any call on the optimizer: the instance exitOptimizer and no
\* arguments.
ExitIdle ==
    /\ config = InstanceConfig
    /\ optimizer = NewExitOptimizer(InstanceConfig)
    /\ amount = DUndefined
    /\ redemptionData = [t |-> "undefined", nav |-> DUndefined, cooldownDays |-> DUndefined]
    /\ redemptionPath = [t |-> "none", v |-> NoPath]
    /\ marketData = NoQuote
    /\ marketPath = [t |-> "none", v |-> NoMarketPath]
    /\ liquidityGain = [t |-> "none", v |-> NoGain]

----------------------------------------------------------------------------
(* The inputs explored.                                                    *)

\* The samples lie within Eps of every threshold of the code.
Eps == 1
\* Maturity dates lie up to MaxDayOffset days after the earliest clock value.
MaxDayOffset == 8
\* The clock is read at NowDays days after the epoch, or up to MaxNowStep
\* days later.
NowDays == 10
MaxNowStep == 1

Now0 == NowDays * DayMs
Nows == {Now0 + i * DayMs : i \in 0..MaxNowStep}

Around(thresholds) == {th + e : th \in thresholds, e \in (-Eps)..Eps}
Values(numbers) == {Undefined, Null, NaN} \cup {Num(n) : n \in numbers}

MaturityValues ==
    Values({Now0 + k * DayMs + e : k \in (-1)..MaxDayOffset, e \in (-Eps)..Eps})
CooldownValues == Values({-1000, 0} \cup Around({3000, 5000, 7000}))
FundingValues ==
    Values({s * n : s \in {-1, 1}, n \in {0, 1000} \cup Around({20, 50})})
DepegValues == Values({-500, 0, 1000} \cup Around({10, 20}))
ConfidenceValues == Values({0, 1000} \cup Around({800, 900, 950}))

Object(p, m, c, f, d, l) ==
    [t |-> "object", protocol |-> p, maturityDate |-> m, cooldownDays |-> c,
     fundingRate |-> f, depegRisk |-> d, confidence |-> l]

\* null and undefined in place of a record.
NullData == [Object("", Undefined, Undefined, Undefined, Undefined, Undefined)
                EXCEPT !.t = "null"]
UndefinedData == [NullData EXCEPT !.t = "undefined"]

\* The fields a variant does not read are either all missing or all set to
\* a value that would draw the largest penalty of its factor.
Stray ==
    {Object("", Undefined, Undefined, Undefined, Undefined, Undefined),
     Object("", Num(Now0 - DayMs), Num(0), Num(1000), Num(1000), Undefined)}

PendleRecords ==
    {Object("Pendle", m, x.cooldownDays, x.fundingRate, x.depegRisk, l) :
        m \in MaturityValues, l \in ConfidenceValues, x \in Stray}
FalconRecords ==
    {Object("Falcon", x.maturityDate, c, x.fundingRate, x.depegRisk, l) :
        c \in CooldownValues, l \in ConfidenceValues, x \in Stray}
EthenaRecords ==
    {Object("Ethena", x.maturityDate, x.cooldownDays, f, d, l) :
        f \in FundingValues, d \in DepegValues, l \in ConfidenceValues, x \in Stray}
\* A protocol name none of the strict comparisons matches.
OtherRecords ==
    {Object("pendle", x.maturityDate, x.cooldownDays, x.fundingRate, x.depegRisk, l) :
        l \in ConfidenceValues, x \in Stray}

ProtocolInputs ==
    {NullData, UndefinedData} \cup PendleRecords \cup FalconRecords
        \cup EthenaRecords \cup OtherRecords

NoStatus == [status |-> "", color |-> "", indicator |-> ""]

----------------------------------------------------------------------------
(* RiskCoreEngine: the instance, the fetches and the poll cycle.           *)

\* The keys of the data of a poll cycle.
ProtocolKeys == {"pendle", "ethena", "falcon"}

\* The engine after its constructor: no score recorded, not polling.
NewRiskCoreEngine ==
    [lastPulseScores |-> [p \in ProtocolKeys |-> Undefined],
     isPolling |-> FALSE,
     activeWatchlist |-> <<>>]

\* parseFloat of a JSON value: a number is itself, anything else is NaN.
ParseFloat(x) == IF x.t = "number" THEN x ELSE NaN

\* The body of a webhook response that could not be read: a network error,
\* a status that is not ok or a body that is not an object.
FailedResponse == [NullData EXCEPT !.t = "error"]

\* The mutant of C19: fetchPendleAPY without its try/catch, a failed request
\* rejecting the promise.
fetchPendleAPY_NoCatch(response) ==
    IF response.t # "object" THEN [t |-> "throw", v |-> NullData]
    ELSE [t |-> "return",
          v |-> Object("Pendle", response.maturityDate, Undefined, Undefined,
                       Undefined, OrElse(response.confidence, Num(950)))]

\* fetchPendleAPY(), given what the webhook answers: the record, or null from
\* the catch block.
fetchPendleAPY(response) ==
    IF response.t # "object" THEN [t |-> "return", v |-> NullData]
    ELSE [t |-> "return",
          v |-> Object("Pendle", response.maturityDate, Undefined, Undefined,
                       Undefined, OrElse(response.confidence, Num(950)))]

\* fetchEthenaFundingRate()
fetchEthenaFundingRate(response) ==
    IF response.t # "object" THEN [t |-> "return", v |-> NullData]
    ELSE [t |-> "return",
          v |-> Object("Ethena", Undefined, Undefined,
                       ParseFloat(response.fundingRate),
                       OrElse(ParseFloat(response.depegRisk), Num(10)),
                       Undefined)]

\* fetchFalconCooldown()
fetchFalconCooldown(response) ==
    IF response.t # "object" THEN [t |-> "return", v |-> NullData]
    ELSE [t |-> "return",
          v |-> Object("Falcon", Undefined, ParseFloat(response.cooldownDays),
                       Undefined, Undefined, Undefined)]

\* The three fetches of a poll, by key of the data.
Fetch(key, response) ==
    CASE key = "pendle" -> fetchPendleAPY(response)
      [] key = "ethena" -> fetchEthenaFundingRate(response)
      [] key = "falcon" -> fetchFalconCooldown(response)

\* updatePulseScoreCards(scores): a protocol without a card on the page is
\* skipped before its score is calculated.
updatePulseScoreCards(this, pg, scores, clock) ==
    [this |->
        [this EXCEPT !.lastPulseScores =
            [p \in ProtocolKeys |->
                IF p \in pg.cards
                THEN Num(calculatePulseScore(scores[p], clock).v)
                ELSE this.lastPulseScores[p]]],
     page |->
        [pg EXCEPT !.cardText =
            [p \in ProtocolKeys |->
                IF p \in pg.cards
                THEN [score |-> Num(calculatePulseScore(scores[p], clock).v),
                      status |-> getStatusFromScore(
                                    calculatePulseScore(scores[p], clock).v).status]
                ELSE pg.cardText[p]]]]

\* Math.round(sum / 3) of a sum that is not negative.
RoundedThird(sum) == (2 * sum + 3) \div 6

\* updateGlobalScore(scores): nothing without the #global-score element.
updateGlobalScore(pg, scores, clock) ==
    IF ~pg.globalScore THEN pg
    ELSE
        LET avgScore ==
                RoundedThird(calculatePulseScore(scores["pendle"], clock).v
                                + calculatePulseScore(scores["ethena"], clock).v
                                + calculatePulseScore(scores["falcon"], clock).v)
        IN  [pg EXCEPT !.globalText =
                [score |-> Num(avgScore), status |-> getStatusFromScore(avgScore).status]]

\* No data: the detail of no event, the data of no cycle.
NoData == [p \in ProtocolKeys |-> UndefinedData]

\* The try block of poll once the three fetches have settled: a rejected
\* fetch rejects Promise.all and lands in the catch block, which logs only.
PollBody(this, pg, responses, clock) ==
    LET fetched == [p \in ProtocolKeys |-> Fetch(p, responses[p])]
    IN  IF \E p \in ProtocolKeys : fetched[p].t = "throw"
        THEN [this |-> this, page |-> pg, data |-> NoData, dispatched |-> FALSE]
        ELSE
            LET data == [p \in ProtocolKeys |-> fetched[p].v]
                cards == updatePulseScoreCards(this, pg, data, clock)
            IN  [this |-> cards.this,
                 page |-> updateGlobalScore(cards.page, data, clock),
                 data |-> data,
                 dispatched |-> TRUE]

----------------------------------------------------------------------------
(* AuditManager: cost basis and the tax CSV.  A text is a sequence of      *)
(* pieces: a comma, a double quote and a line feed are pieces of their     *)
(* own, any other piece is a run of characters that holds none of them.    *)

Comma == ","
Quote == "\""
LineFeed == "\n"

\* NaN among the decimal numbers.
DNaN == [t |-> "NaN", m |-> 0, e |-> 0]

\* parseFloat of a field of a log: a number is itself, a missing field NaN.
DParseFloat(x) == IF x.t = "number" THEN x ELSE DNaN

\* a * b where either may be NaN.
NMul(a, b) == IF a.t = "number" /\ b.t = "number" THEN DMul(a, b) ELSE DNaN

RECURSIVE Zeros(_)
Zeros(n) == IF n <= 0 THEN "" ELSE "0" \o Zeros(n - 1)

\* x.toFixed(n) for n > 0: "NaN" for NaN, else n decimals, rounded to the
\* nearest (halves away from zero) when x has more.
DToFixed(x, n) ==
    IF x.t # "number" THEN "NaN"
    ELSE
        LET a == IF x.m < 0 THEN -x.m ELSE x.m
            sign == IF x.m < 0 THEN "-" ELSE ""
        IN  IF x.e <= n
            THEN sign \o ToString(a \div Pow10(x.e)) \o "."
                    \o Digits(a % Pow10(x.e), x.e) \o Zeros(n - x.e)
            ELSE
                LET k == (a + Pow10(x.e - n) \div 2) \div Pow10(x.e - n)
                IN  sign \o ToString(k \div Pow10(n)) \o "." \o Digits(k % Pow10(n), n)

\* new AuditManager(config)
NewAuditManager(cfg) ==
    [userLocation |-> IF cfg.userLocation = "" THEN "KE" ELSE cfg.userLocation,
     yieldLogs |-> <<>>,
     currentFilter |-> "all"]

\* A string field that may be missing.
NoString == [t |-> "undefined", v |-> ""]
Str(v) == [t |-> "string", v |-> v]
StrTruthy(x) == x.t = "string" /\ x.v # ""

NoCostBasis ==
    [acquisitionDate |-> <<>>, acquisitionRate |-> DUndefined,
     amountCrypto |-> DUndefined, costBasisLocal |-> DUndefined, currency |-> ""]

\* The mutant of C30: the log's own currency ahead of the location default.
calculateCostBasis_LogCurrencyFirst(this, yieldLog) ==
    LET acquisitionRate == DOrElse(DParseFloat(yieldLog.ExchangeRate), D(1, 0))
        amountCrypto == DParseFloat(yieldLog.RewardAmount)
    IN  [acquisitionDate |-> yieldLog.Timestamp,
         acquisitionRate |-> acquisitionRate,
         amountCrypto |-> amountCrypto,
         costBasisLocal |-> NMul(amountCrypto, acquisitionRate),
         currency |-> IF StrTruthy(yieldLog.Currency) THEN yieldLog.Currency.v
                      ELSE IF this.userLocation = "KE" THEN "KES" ELSE "USD"]

\* calculateCostBasis(yieldLog): the conditional operator binds looser than
\* ||, so the condition is (Currency || userLocation === 'KE').
calculateCostBasis(this, yieldLog) ==
    LET acquisitionRate == DOrElse(DParseFloat(yieldLog.ExchangeRate), D(1, 0))
        amountCrypto == DParseFloat(yieldLog.RewardAmount)
    IN  [acquisitionDate |-> yieldLog.Timestamp,
         acquisitionRate |-> acquisitionRate,
         amountCrypto |-> amountCrypto,
         costBasisLocal |-> NMul(amountCrypto, acquisitionRate),
         currency |-> IF StrTruthy(yieldLog.Currency) \/ this.userLocation = "KE"
                      THEN "KES" ELSE "USD"]

\* calculateTaxLiability(costBasisLocal)
calculateTaxLiability(this, costBasisLocal) ==
    NMul(costBasisLocal, IF this.userLocation = "KE" THEN D(3, 1) ELSE D(2, 1))

\* The header row of generateTaxCSV.
CsvHeader(currency) ==
    <<<<"Timestamp">>, <<"Asset">>, <<"Protocol">>, <<"Reward Amount (Crypto)">>,
      <<"Value at Receipt (" \o currency \o ")">>, <<"Exchange Rate">>,
      <<"Tax Liability">>, <<"Risk Score at Time">>>>

\* The row generateTaxCSV pushes for a log; String(cell) of each cell.
CsvRow(this, log) ==
    LET amt == DParseFloat(log.RewardAmount)
        exchangeRate == DOrElse(DParseFloat(log.ExchangeRate), D(1, 0))
        valueLocal == NMul(amt, exchangeRate)
        taxLiability == calculateTaxLiability(this, valueLocal)
        riskScore == IF Truthy(log.RiskScore) THEN ToString(log.RiskScore.v) ELSE "N/A"
    IN  <<log.Timestamp, log.Asset, log.Protocol,
          <<DToFixed(amt, 8)>>, <<DToFixed(valueLocal, 2)>>,
          <<DToFixed(exchangeRate, 4)>>, <<DToFixed(taxLiability, 2)>>,
          <<riskScore>>>>

\* csvRows of generateTaxCSV
CsvRows(this, currency) ==
    <<CsvHeader(currency)>>
        \o [i \in 1..Len(this.yieldLogs) |-> CsvRow(this, this.yieldLogs[i])]

RECURSIVE EscapeQuotes(_)
\* text.replace(/"/g, '""')
EscapeQuotes(text) ==
    IF text = <<>> THEN <<>>
    ELSE (IF Head(text) = Quote THEN <<Quote, Quote>> ELSE <<Head(text)>>)
            \o EscapeQuotes(Tail(text))

\* text.includes(piece)
Includes(text, piece) == \E i \in 1..Len(text) : text[i] = piece

\* The mutant of C21: no cell wrapped in quotes.
CsvCell_NeverWrapped(cell) == EscapeQuotes(cell)

\* The cell as generateTaxCSV writes it: quotes doubled, and the whole
\* wrapped in quotes if it contains a comma.
CsvCell(cell) ==
    LET escaped == EscapeQuotes(cell)
    IN  IF Includes(escaped, Comma) THEN <<Quote>> \o escaped \o <<Quote>> ELSE escaped

RECURSIVE Join(_, _)
\* texts.join(separator)
Join(texts, separator) ==
    IF texts = <<>> THEN <<>>
    ELSE IF Len(texts) = 1 THEN texts[1]
    ELSE texts[1] \o <<separator>> \o Join(Tail(texts), separator)

\* generateTaxCSV(currency): the text of the file.
generateTaxCSV(this, currency) ==
    LET csvRows == CsvRows(this, currency)
    IN  Join([r \in 1..Len(csvRows) |->
                Join([c \in 1..Len(csvRows[r]) |-> CsvCell(csvRows[r][c])], Comma)],
             LineFeed)

NoLog ==
    [Timestamp |-> <<>>, Asset |-> <<>>, Protocol |-> <<>>,
     RewardAmount |-> DUndefined, ExchangeRate |-> DUndefined,
     RiskScore |-> Undefined, Currency |-> NoString]

\* The instance auditManager, nothing called on it.
AuditIdle ==
    [this |-> NewAuditManager([userLocation |-> "KE"]),
     currency |-> "",
     yieldLog |-> NoLog,
     csv |-> [t |-> "none", v |-> <<>>],
     costBasis |-> [t |-> "none", v |-> NoCostBasis]]

----------------------------------------------------------------------------
(* NairobiAgent: the message lock.                                        *)

\* new NairobiAgent(config), the instance nairobi: the fields sendMessage
\* reads or writes.
NewNairobiAgent ==
    [aiModel |-> "gemini-pro", conversationHistory |-> <<>>,
     userWatchlist |-> <<>>, isProcessing |-> FALSE]

\* _trimHistory(maxMessages): conversationHistory.slice(-maxMessages)
trimHistory(this, maxMessages) ==
    LET h == this.conversationHistory
    IN  IF Len(h) <= maxMessages THEN h
        ELSE SubSeq(h, Len(h) - maxMessages + 1, Len(h))

\* What a caller of sendMessage holds: nothing yet (the promise is pending),
\* null, or a string.
NoReply == [t |-> "pending", v |-> ""]
NullReply == [t |-> "null", v |-> ""]
Reply(text) == [t |-> "string", v |-> text]

NoRequest == [t |-> "none", userMessage |-> "", conversationHistory |-> <<>>, model |-> ""]

\* The mutant of C24: the isProcessing test made inside the try block, so
\* that the finally clause also runs for a refused call.
sendMessage_GuardInsideTry(this, userMessage) ==
    IF this.isProcessing
    THEN [this |-> [this EXCEPT !.isProcessing = FALSE], ret |-> NullReply,
          request |-> NoRequest]
    ELSE
        LET pushed == [this EXCEPT
                        !.isProcessing = TRUE,
                        !.conversationHistory =
                            Append(@, [role |-> "user", content |-> userMessage])]
        IN  [this |-> pushed, ret |-> NoReply,
             request |-> [t |-> "request", userMessage |-> userMessage,
                          conversationHistory |-> trimHistory(pushed, 10),
                          model |-> pushed.aiModel]]

\* sendMessage(userMessage) up to its await: a call made while isProcessing
\* is set returns null; otherwise the flag is set, the message is pushed to
\* the history and the request is issued.  The timestamps of the history
\* entries and of the request are left out: nothing reads them.
sendMessage(this, userMessage) ==
    IF this.isProcessing
    THEN [this |-> this, ret |-> NullReply, request |-> NoRequest]
    ELSE
        LET pushed == [this EXCEPT
                        !.isProcessing = TRUE,
                        !.conversationHistory =
                            Append(@, [role |-> "user", content |-> userMessage])]
        IN  [this |-> pushed, ret |-> NoReply,
             request |-> [t |-> "request", userMessage |-> userMessage,
                          conversationHistory |-> trimHistory(pushed, 10),
                          model |-> pushed.aiModel]]

\* The ways the request of sendMessage settles: fetch rejects, the response
\* is not ok, its body is not JSON, or its body is a JSON value (null, or an
\* object whose response and message are strings, "" when absent).
AgentOutcomes ==
    {[t |-> "rejected", error |-> "Failed to fetch", response |-> "", message |-> ""],
     [t |-> "status", error |-> "Agent error: 500", response |-> "", message |-> ""],
     [t |-> "invalid", error |-> "Unexpected end of JSON input", response |-> "", message |-> ""],
     [t |-> "null", error |-> "Cannot read properties of null (reading 'response')",
      response |-> "", message |-> ""]}
    \cup {[t |-> "object", error |-> "", response |-> r, message |-> m] :
            r \in {"", "Hold sUSDe"}, m \in {"", "Rate limited"}}

\* sendMessage after its await: the response is pushed to the history and
\* returned, or the catch clause returns the error text; the finally clause
\* clears isProcessing either way.
sendMessageSettles(this, outcome) ==
    IF outcome.t = "object"
    THEN
        LET agentResponse ==
                IF outcome.response # "" THEN outcome.response
                ELSE IF outcome.message # "" THEN outcome.message
                ELSE "No response from agent"
        IN  [this |-> [this EXCEPT
                        !.isProcessing = FALSE,
                        !.conversationHistory =
                            Append(@, [role |-> "assistant", content |-> agentResponse])],
             ret |-> Reply(agentResponse)]
    ELSE [this |-> [this EXCEPT !.isProcessing = FALSE],
          ret |-> Reply("Error: Unable to process your request. " \o outcome.error)]

\* The agent before any message: no call made, no request in flight.
AgentIdle ==
    [this |-> NewNairobiAgent, calls |-> 0, requests |-> 0, inFlight |-> <<>>,
     ret |-> NoReply]

----------------------------------------------------------------------------
(* ExitOptimizer.calculateExit, the page it renders to and its callers.   *)

\* The body of a webhook answer that could not be read.
NoAnswer == [t |-> "error", nav |-> DUndefined, cooldownDays |-> DUndefined,
             price |-> DUndefined, liquidity |-> DUndefined, dex |-> ""]

NullRedemption == [t |-> "null", nav |-> DUndefined, cooldownDays |-> DUndefined]
NullMarket == [t |-> "null", price |-> DUndefined, liquidity |-> DUndefined, dex |-> ""]

\* fetchRedemptionValue(asset), given what the webhook answers: the quote,
\* or null from the catch block.
fetchRedemptionValue(response) ==
    IF response.t # "object" THEN NullRedemption
    ELSE [t |-> "object",
          nav |-> DOrElse(DParseFloat(response.nav), D(1, 0)),
          cooldownDays |-> DOrElse(DParseFloat(response.cooldownDays), D(7, 0))]

\* fetchMarketPrice(asset)
fetchMarketPrice(response) ==
    IF response.t # "object" THEN NullMarket
    ELSE [t |-> "object",
          price |-> DOrElse(DParseFloat(response.price), D(1, 0)),
          liquidity |-> DParseFloat(response.liquidity),
          dex |-> response.dex]

\* The texts of the comparison view, "" where nothing was written.
NoScenarioRow == [redemptionValue |-> "", marketValue |-> "", recommendation |-> ""]
BlankText ==
    [redemptionDays |-> "", redemptionNav |-> "", redemptionYield |-> "",
     marketPrice |-> "", marketHaircut |-> "", marketFinal |-> "",
     recommendation |-> "",
     scenarios |-> <<NoScenarioRow, NoScenarioRow, NoScenarioRow>>]

\* A page: the click listeners on #calculate-btn in the order they were
\* added, whether the elements of the two cards and of the scenario table
\* exist (panels), and #liquidity-badge: absent, without its heading span
\* (bare) or with it (span).
BlankExitPage ==
    [listeners |-> <<>>, panels |-> FALSE, badge |-> "absent", text |-> BlankText]

\* String.prototype.toUpperCase of the asset types of the select.
ToUpperCase(text) ==
    CASE text = "sUSDe" -> "SUSDE"
      [] text = "usdf" -> "USDF"
      [] OTHER -> text

\* parseFloat and ToNumber of the texts typed in #exit-amount.
ParseAmount(text) ==
    CASE text = "100" -> D(100, 0)
      [] text = "25.5" -> D(255, 1)
      [] OTHER -> DNaN

\* parseUserInput(assetType, amount), its timestamp left out.
parseUserInput(assetType, amt) ==
    [asset |-> ToUpperCase(assetType), amount |-> amt]

NoInput == [asset |-> "", amount |-> DUndefined]

\* What calculateExit resolves to, and the detail of an exitComparison event.
NoResult ==
    [success |-> FALSE, error |-> "", input |-> NoInput, redemptionPath |-> NoPath,
     marketPath |-> NoMarketPath, liquidityGain |-> NoGain]

\* _updateRedemptionCard(redemptionPath)
updateRedemptionCard(page_, redemptionPath_) ==
    IF ~page_.panels THEN page_
    ELSE [page_ EXCEPT
            !.text.redemptionDays = DToString(redemptionPath_.cooldownDays),
            !.text.redemptionNav = "$" \o DToFixed2(redemptionPath_.finalValue),
            !.text.redemptionYield =
                "$" \o DToFixed2(redemptionPath_.yieldAccrued) \o "/day"]

\* _updateMarketCard(marketPath)
updateMarketCard(page_, marketPath_) ==
    IF ~page_.panels THEN page_
    ELSE [page_ EXCEPT
            !.text.marketPrice = "$" \o DToFixed2(marketPath_.finalValue),
            !.text.marketHaircut = marketPath_.haircut \o "%",
            !.text.marketFinal = "$" \o DToFixed2(marketPath_.finalValue)]

\* _updateLiquidityBadge(liquidityGain): with the heading span present the
\* statement reads the undeclared name ganText and throws a ReferenceError.
updateLiquidityBadge(page_, liquidityGain_) ==
    IF page_.badge = "absent" THEN [t |-> "return", page |-> page_]
    ELSE IF page_.badge = "span" THEN [t |-> "throw", page |-> page_]
    ELSE [t |-> "return",
          page |-> [page_ EXCEPT
                      !.text.recommendation =
                          IF liquidityGain_.recommendation = "EXIT_NOW"
                          THEN "Exit Now" ELSE "Wait"]]

\* _updateScenarioTable(analysis)
updateScenarioTable(page_, analysis) ==
    IF ~page_.panels THEN page_
    ELSE
        LET rows == <<analysis.bestCase, analysis.midCase, analysis.worstCase>>
        IN  [page_ EXCEPT
                !.text.scenarios =
                    [idx \in 1..3 |->
                        [redemptionValue |-> rows[idx].redemptionValue,
                         marketValue |-> rows[idx].marketValue,
                         recommendation |-> rows[idx].recommendation]]]

\* renderComparison(input, redemptionPath, marketPath, liquidityGain): the
\* page it leaves, whether it threw, and whether it dispatched the event.
renderComparison(page_, input, redemptionPath_, marketPath_, liquidityGain_) ==
    LET p1 == updateRedemptionCard(page_, redemptionPath_)
        p2 == updateMarketCard(p1, marketPath_)
        b == updateLiquidityBadge(p2, liquidityGain_)
    IN  IF b.t = "throw"
        THEN [t |-> "throw", page |-> b.page, dispatched |-> FALSE]
        ELSE [t |-> "return",
              page |-> updateScenarioTable(b.page, liquidityGain_.analysis),
              dispatched |-> TRUE]

\* calculateExit(assetType, amount), given what its two fetches answer: the
\* value it resolves to, the page it leaves and whether exitComparison was
\* dispatched.
calculateExit(this, page_, assetType, amt, redemptionAnswer, marketAnswer) ==
    LET input == parseUserInput(assetType, amt)
        redemptionData_ == fetchRedemptionValue(redemptionAnswer)
        marketData_ == fetchMarketPrice(marketAnswer)
    IN  IF redemptionData_.t = "null" \/ marketData_.t = "null"
        THEN [ret |-> [NoResult EXCEPT !.error = "Failed to fetch market data"],
              page |-> page_, dispatched |-> FALSE]
        ELSE
            LET redemptionPath_ == calculateRedemptionPath(this, amt, redemptionData_).v
                marketPath_ == calculateMarketPath(this, amt, marketData_).v
                liquidityGain_ == calculateLiquidityGain(this, redemptionPath_, marketPath_)
                r == renderComparison(page_, input, redemptionPath_, marketPath_,
                                      liquidityGain_)
            IN  IF r.t = "throw"
                THEN [ret |-> [NoResult EXCEPT !.error = "ganText is not defined"],
                      page |-> r.page, dispatched |-> FALSE]
                ELSE [ret |-> [success |-> TRUE, error |-> "", input |-> input,
                               redemptionPath |-> redemptionPath_,
                               marketPath |-> marketPath_,
                               liquidityGain |-> liquidityGain_],
                      page |-> r.page, dispatched |-> TRUE]

\* The record of the invocation that settled last.
NoSettled ==
    [t |-> "none", id |-> 0, amount |-> DUndefined,
     redemptionData |-> NullRedemption, marketData |-> NullMarket,
     ret |-> NoResult, before |-> BlankText, dispatched |-> FALSE]

\* The arbitrage page before any click: no listener added yet, no
\* calculation requested, no event dispatched.
HandlerIdle ==
    [page |-> BlankExitPage, clicks |-> 0, calls |-> 0, inFlight |-> <<>>,
     latest |-> [t |-> "none", v |-> NoResult],
     last |-> NoSettled,
     event |-> [count |-> 0, detail |-> NoResult],
     alert |-> ""]

----------------------------------------------------------------------------
(* The agent panel: GlobalNairobiAgent, the keyboard shortcut of the       *)
(* sidebar and the buttons of the dashboard.                               *)

\* A page without any of the elements the three scripts look up.
BlankPanelPage ==
    [panel |-> FALSE, trigger |-> FALSE, close |-> FALSE, openAgent |-> FALSE,
     input |-> FALSE]

\* new GlobalNairobiAgent(): modal is whether this.modal holds the panel.
NewGlobalNairobiAgent == [modal |-> FALSE, isOpen |-> FALSE]

\* initialize(): caches #agent-panel; its listeners are added only when the
\* panel was found.
initialize(this, page_) == [this EXCEPT !.modal = page_.panel]

\* The panel state the operations below act on: the agent, the classes of
\* #agent-panel, the page and the user event handled last.
\* openModal()
openModal(s) ==
    IF ~s.this.modal THEN s
    ELSE [s EXCEPT !.classes = (@ \ {"hidden"}) \cup {"open"},
                   !.this.isOpen = TRUE]

\* closeModal()
closeModal(s) ==
    IF ~s.this.modal THEN s
    ELSE [s EXCEPT !.classes = (@ \cup {"hidden"}) \ {"open"},
                   !.this.isOpen = FALSE]

\* toggleModal()
toggleModal(s) == IF s.this.isOpen THEN closeModal(s) ELSE openModal(s)

\* The keydown listener of initializeKeyboardShortcuts, on Ctrl/Cmd+K: it
\* toggles the class by what the panel carries.
shortcutKeydown(s) ==
    IF ~s.page.panel THEN s
    ELSE IF "open" \in s.classes
    THEN [s EXCEPT !.classes = @ \ {"open"}]
    ELSE [s EXCEPT !.classes = @ \cup {"open"}]

\* The document keydown listener of GlobalNairobiAgent, added when the
\* panel was found.
agentKeydown(s, key) ==
    IF ~s.this.modal THEN s
    ELSE IF key = "k" THEN toggleModal(s)
    ELSE IF key = "Escape" /\ s.this.isOpen THEN closeModal(s)
    ELSE s

\* The listeners of initializeDashboard: they add or remove the class.
dashboardOpen(s) ==
    IF s.page.panel THEN [s EXCEPT !.classes = @ \cup {"open"}] ELSE s
dashboardClose(s) ==
    IF s.page.panel THEN [s EXCEPT !.classes = @ \ {"open"}] ELSE s

\* globalNairobi constructed, no page loaded yet.
SidebarIdle ==
    [this |-> NewGlobalNairobiAgent, classes |-> {}, page |-> BlankPanelPage,
     event |-> ""]

AppIdle ==
    /\ audit = AuditIdle
    /\ agent = AgentIdle
    /\ handler = HandlerIdle
    /\ sidebar = SidebarIdle

\* A page with none of the elements the engine looks up.
BlankPage ==
    [cards |-> {}, ticker |-> FALSE, globalScore |-> FALSE,
     cardText |-> [p \in ProtocolKeys |-> [score |-> Undefined, status |-> ""]],
     globalText |-> [score |-> Undefined, status |-> ""]]

NoCycle ==
    [done |-> FALSE, responses |-> [p \in ProtocolKeys |-> FailedResponse],
     data |-> NoData, dispatched |-> FALSE]

NoFirst ==
    [t |-> "none", now |-> 0, pulse |-> NotCalled, status |-> NoStatus,
     redemptionPath |-> [t |-> "none", v |-> NoPath],
     marketPath |-> [t |-> "none", v |-> NoMarketPath],
     liquidityGain |-> [t |-> "none", v |-> NoGain]]

\* The engine riskCore, monitoring not started.
RiskCoreIdle ==
    /\ engine = NewRiskCoreEngine
    /\ page = BlankPage
    /\ inFlight = 0
    /\ timers = 0
    /\ cycle = NoCycle
    /\ first = NoFirst

\* The engine riskCore on a page where it is never started, and the other
\* objects of the application untouched.
EngineIdle ==
    /\ AppIdle
    /\ RiskCoreIdle

----------------------------------------------------------------------------
(* The scoring engine called once on an arbitrary input.                   *)

Init ==
    /\ pc = "call"
    /\ ExitIdle
    /\ EngineIdle
    /\ pulse = NotCalled
    /\ status = NoStatus
    /\ \/ /\ op = "calculatePulseScore"
          /\ protocolData \in ProtocolInputs
          /\ now \in Nows
          /\ scoreArg = 0
       \/ /\ op = "getStatusFromScore"
          /\ scoreArg \in 0..100
          /\ protocolData = NullData
          /\ now = Now0

CalculatePulseScore ==
    /\ pc = "call"
    /\ op = "calculatePulseScore"
    /\ pulse' = calculatePulseScore(protocolData, now)
    /\ pc' = "done"
    /\ UNCHANGED <<op, appVars, now, protocolData, scoreArg, status, exitVars, engineVars>>

GetStatusFromScore ==
    /\ pc = "call"
    /\ op = "getStatusFromScore"
    /\ status' = getStatusFromScore(scoreArg)
    /\ pc' = "done"
    /\ UNCHANGED <<op, appVars, now, protocolData, pulse, scoreArg, exitVars, engineVars>>

Next == CalculatePulseScore \/ GetStatusFromScore

Spec == Init /\ [][Next]_vars

----------------------------------------------------------------------------
(* Properties of the scoring engine.                                       *)

Scored == pc = "done" /\ op = "calculatePulseScore"
StatusDone == pc = "done" /\ op = "getStatusFromScore"
IsObject(data) == data.t = "object"
IsNumber(x) == x.t = "number"
IsNumberOrMissing(x) == x.t \in {"number", "undefined"}

\* The score the engine gives a record at the current clock value.
ScoreOf(data) == calculatePulseScore(data, now).v

\* The least k with diff <= k days: the whole-day count of the claims.
WholeDays(diff) ==
    CHOOSE k \in (-(MaxNowStep + 3))..(MaxDayOffset + 3) :
        (k - 1) * DayMs < diff /\ diff <= k * DayMs

\* The penalty tiers as the specification states them.
PendleTier(d) == IF d < 1 THEN 30 ELSE IF d < 3 THEN 20 ELSE IF d < 7 THEN 10 ELSE 0
FalconTier(c) == IF c < 3000 THEN 25 ELSE IF c < 5000 THEN 15 ELSE IF c < 7000 THEN 5 ELSE 0
FundingTier(f) ==
    LET a == IF f < 0 THEN -f ELSE f
    IN  IF a > 50 THEN 20 ELSE IF a > 20 THEN 10 ELSE 0
DepegTier(r) == IF r > 20 THEN 15 ELSE IF r > 10 THEN 8 ELSE 0
LivenessTier(l) == IF l < 800 THEN 30 ELSE IF l < 900 THEN 15 ELSE IF l < 950 THEN 5 ELSE 0

\* The penalties that apply to a record whose fields are numbers or missing.
ApplicablePenalties(data) ==
    (IF data.protocol = "Pendle" /\ IsNumber(data.maturityDate)
     THEN PendleTier(WholeDays(data.maturityDate.v - now)) ELSE 0)
    + (IF data.protocol = "Falcon" /\ IsNumber(data.cooldownDays)
       THEN FalconTier(data.cooldownDays.v) ELSE 0)
    + (IF data.protocol = "Ethena" /\ IsNumber(data.fundingRate)
       THEN FundingTier(data.fundingRate.v) ELSE 0)
    + (IF data.protocol = "Ethena" /\ IsNumber(data.depegRisk)
       THEN DepegTier(data.depegRisk.v) ELSE 0)
    + (IF IsNumber(data.confidence) THEN LivenessTier(data.confidence.v) ELSE 0)

FieldsNumbersOrMissing(data) ==
    /\ IsNumberOrMissing(data.maturityDate)
    /\ IsNumberOrMissing(data.cooldownDays)
    /\ IsNumberOrMissing(data.fundingRate)
    /\ IsNumberOrMissing(data.depegRisk)
    /\ IsNumberOrMissing(data.confidence)

Within(x, lo, hi) == IF x < lo THEN lo ELSE IF x > hi THEN hi ELSE x

AdversarialEthena(data) ==
    /\ data.protocol = "Ethena"
    /\ data.fundingRate = Num(1000)
    /\ data.depegRisk = Num(1000)
    /\ data.confidence = Num(0)

\* C1: whatever the input, calculatePulseScore returns a score in 0..100;
\* for a record whose fields are numbers or missing the score is
\* clamp(100 - the sum of the applicable penalties, 0, 100), and the Ethena
\* record with fundingRate 1.0, depegRisk 1.0, confidence 0 scores 35.
C1_ScoreClamped ==
    Scored =>
        /\ pulse.t = "return"
        /\ pulse.v \in 0..100
        /\ (IsObject(protocolData) /\ FieldsNumbersOrMissing(protocolData))
            => pulse.v = Within(100 - ApplicablePenalties(protocolData), 0, 100)
        /\ (IsObject(protocolData) /\ AdversarialEthena(protocolData))
            => pulse.v = 35

C1_Witness ==
    /\ Scored
    /\ IsObject(protocolData)
    /\ AdversarialEthena(protocolData)
    /\ pulse = Return(35)

\* C2: calculatePulseScore of null or undefined returns 0 and does not throw.
C2_NullScoresZero ==
    (Scored /\ ~IsObject(protocolData)) => pulse = Return(0)

C2_Witness == Scored /\ protocolData = NullData /\ pulse = Return(0)

StatusRank(name) ==
    CASE name = "Critical" -> 0
      [] name = "Warning" -> 1
      [] name = "Monitor" -> 2
      [] name = "Safe" -> 3
      [] OTHER -> -1

StatusTier(score) ==
    IF score >= 75 THEN "Safe"
    ELSE IF score >= 50 THEN "Monitor"
    ELSE IF score >= 25 THEN "Warning"
    ELSE "Critical"

\* C3: every integer score in 0..100 gets the one status of its band
\* (>=75 Safe, 50..74 Monitor, 25..49 Warning, 0..24 Critical), and no lower
\* score gets a better status.
C3_StatusBands ==
    StatusDone =>
        /\ status.status = StatusTier(scoreArg)
        /\ \A lower \in 0..scoreArg :
              StatusRank(getStatusFromScore(lower).status) <= StatusRank(status.status)

C3_Witness == StatusDone /\ scoreArg = 75 /\ status.status = "Safe"

\* C4: a Pendle record with a maturity date loses, against the same record
\* without one, the tier of d = ceil((maturityDate - now) / one day):
\* 30 for d < 1, 20 for d < 3, 10 for d < 7, nothing from 7 on; so a date at
\* or before now costs 30.
C4_PendleTemporalTiers ==
    (Scored /\ IsObject(protocolData) /\ protocolData.protocol = "Pendle"
        /\ IsNumber(protocolData.maturityDate))
    => /\ pulse.v = ScoreOf([protocolData EXCEPT !.maturityDate = Undefined])
                        - PendleTier(WholeDays(protocolData.maturityDate.v - now))
       /\ protocolData.maturityDate.v <= now
            => pulse.v = ScoreOf([protocolData EXCEPT !.maturityDate = Undefined]) - 30

C4_Witness ==
    /\ Scored
    /\ IsObject(protocolData)
    /\ protocolData.protocol = "Pendle"
    /\ protocolData.maturityDate = Num(now + 1)
    /\ protocolData.confidence = Undefined
    /\ pulse = Return(80)

\* C5: a Falcon record with cooldownDays loses, against the same record
\* without it, 25 below 3 days, 15 from 3 to below 5, 5 from 5 to below 7
\* and nothing from 7 on.
C5_FalconTemporalTiers ==
    (Scored /\ IsObject(protocolData) /\ protocolData.protocol = "Falcon"
        /\ IsNumber(protocolData.cooldownDays))
    => pulse.v = ScoreOf([protocolData EXCEPT !.cooldownDays = Undefined])
                    - FalconTier(protocolData.cooldownDays.v)

C5_Witness ==
    /\ Scored
    /\ IsObject(protocolData)
    /\ protocolData.protocol = "Falcon"
    /\ protocolData.cooldownDays = Num(3000)
    /\ protocolData.confidence = Undefined
    /\ pulse = Return(85)

WithoutDepegFields(data) ==
    [data EXCEPT !.fundingRate = Undefined, !.depegRisk = Undefined]

\* C6: an Ethena record loses, against the same record without fundingRate
\* and depegRisk, the funding tier of |fundingRate| plus the tier of
\* depegRisk, 35 at most; a record of any other protocol scores the same
\* with and without those two fields.
C6_DepegOnlyEthena ==
    (Scored /\ IsObject(protocolData)) =>
        IF protocolData.protocol = "Ethena"
        THEN /\ ScoreOf(WithoutDepegFields(protocolData)) - pulse.v \in 0..35
             /\ (IsNumberOrMissing(protocolData.fundingRate)
                    /\ IsNumberOrMissing(protocolData.depegRisk))
                => pulse.v = ScoreOf(WithoutDepegFields(protocolData))
                        - (IF IsNumber(protocolData.fundingRate)
                           THEN FundingTier(protocolData.fundingRate.v) ELSE 0)
                        - (IF IsNumber(protocolData.depegRisk)
                           THEN DepegTier(protocolData.depegRisk.v) ELSE 0)
        ELSE pulse.v = ScoreOf(WithoutDepegFields(protocolData))

C6_Witness ==
    /\ Scored
    /\ IsObject(protocolData)
    /\ protocolData.protocol = "Pendle"
    /\ protocolData.fundingRate = Num(1000)
    /\ protocolData.depegRisk = Num(1000)
    /\ protocolData.maturityDate = Undefined
    /\ protocolData.confidence = Undefined
    /\ pulse = Return(100)

\* C7: a record of any protocol with a confidence value loses, against the
\* same record with confidence 1.0, 30 below 0.8, 15 from 0.8 to below 0.9,
\* 5 from 0.9 to below 0.95 and nothing from 0.95 on; a record without
\* confidence scores as the same record with confidence 1.0.
C7_LivenessTiers ==
    (Scored /\ IsObject(protocolData)) =>
        /\ IsNumber(protocolData.confidence)
            => pulse.v = ScoreOf([protocolData EXCEPT !.confidence = Num(1000)])
                            - LivenessTier(protocolData.confidence.v)
        /\ protocolData.confidence = Undefined
            => pulse.v = ScoreOf([protocolData EXCEPT !.confidence = Num(1000)])

C7_Witness ==
    /\ Scored
    /\ IsObject(protocolData)
    /\ protocolData.protocol = "Falcon"
    /\ protocolData.cooldownDays = Num(7000)
    /\ protocolData.confidence = Num(800)
    /\ pulse = Return(85)

\* The record with its temporal field set to a value of the zero tier.
WithZeroTemporal(data) ==
    IF data.protocol = "Pendle"
    THEN [data EXCEPT !.maturityDate = Num(now + 7 * DayMs)]
    ELSE [data EXCEPT !.cooldownDays = Num(7000)]

TemporalFieldAbsent(data) ==
    \/ data.protocol = "Pendle" /\ data.maturityDate \in {Undefined, Null}
    \/ data.protocol = "Falcon" /\ data.cooldownDays \in {Undefined, Null}

\* C8: a Pendle record whose maturityDate is undefined or null, and a Falcon
\* record whose cooldownDays is undefined or null, scores as if the temporal
\* factor contributed penalty 0.
C8_AbsentTemporalSkipped ==
    (Scored /\ IsObject(protocolData) /\ TemporalFieldAbsent(protocolData))
    => pulse.v = ScoreOf(WithZeroTemporal(protocolData))

\* C9: a Pendle record with confidence >= 0.95 and a maturity date at least
\* 7 days after now, exactly now + 7 days included, scores 100.
C9_HealthyPendleScores100 ==
    (Scored /\ IsObject(protocolData) /\ protocolData.protocol = "Pendle"
        /\ IsNumber(protocolData.confidence) /\ protocolData.confidence.v >= 950
        /\ IsNumber(protocolData.maturityDate)
        /\ protocolData.maturityDate.v >= now + 7 * DayMs)
    => pulse = Return(100)

C9_Witness ==
    /\ Scored
    /\ IsObject(protocolData)
    /\ protocolData.protocol = "Pendle"
    /\ protocolData.confidence = Num(950)
    /\ protocolData.maturityDate = Num(now + 7 * DayMs)
    /\ pulse = Return(100)

----------------------------------------------------------------------------
(* The exit comparator called once on an arbitrary amount and quote.       *)

\* Whole amounts up to MaxAmountUnits and whole cooldowns up to
\* MaxCooldownDays are explored, besides the fractional samples.
MaxAmountUnits == 2
MaxCooldownDays == 7

AmountValues ==
    {D(a, 0) : a \in 0..MaxAmountUnits} \cup {D(100, 0), D(5, 1), D(255, 1)}
NavValues == {D(0, 0), D(946, 3), D(98, 2), D(1, 0), D(105, 2)}
CooldownDayValues == {D(d, 0) : d \in 0..MaxCooldownDays} \cup {D(75, 1)}
PriceValues == {D(0, 0), D(9, 1), D(1, 0), D(105, 2)}

\* Caller-supplied scenario fractions, none of them a default.
CustomScenarios == [t |-> "object", best |-> D(1, 3), mid |-> D(1, 2), worst |-> D(5, 2)]

\* The configurations an optimizer is constructed from: each property absent,
\* zero, the default or another value.
ExitConfigs ==
    [slippageEstimate : {DUndefined, D(0, 0), D(4, 3), D(1, 2)},
     gasEstimate : {DUndefined, D(0, 0), D(5, 0), D(25, 1)},
     dailyYieldRate : {DUndefined, D(0, 0), D(24, 3), D(5, 2)},
     depegRiskScenarios : {NoScenarios, CustomScenarios}]

\* The configurations the comparisons run under.
CompareConfigs ==
    [slippageEstimate : {DUndefined, D(1, 2)},
     gasEstimate : {D(5, 0), D(25, 1)},
     dailyYieldRate : {D(0, 0), D(5, 2)},
     depegRiskScenarios : {NoScenarios}]

\* The redemption quotes: the objects fetchRedemptionValue builds, the null
\* it returns when the fetch fails, and no quote at all.
RedemptionQuotes ==
    [t : {"object"}, nav : NavValues, cooldownDays : CooldownDayValues]
        \cup {[t |-> k, nav |-> DUndefined, cooldownDays |-> DUndefined] :
                    k \in {"null", "undefined"}}

\* The market quotes: the objects fetchMarketPrice builds, the null it
\* returns when the fetch fails, and no quote at all.
MarketQuotes ==
    [t : {"object"}, price : PriceValues, liquidity : {D(1000000, 0)}, dex : {"Curve"}]
        \cup {[t |-> k, price |-> DUndefined, liquidity |-> DUndefined, dex |-> ""] :
                    k \in {"null", "undefined"}}

ScoreIdle ==
    /\ now = Now0
    /\ protocolData = NullData
    /\ pulse = NotCalled
    /\ scoreArg = 0
    /\ status = NoStatus

InitExit ==
    /\ pc = "new"
    /\ ScoreIdle
    /\ EngineIdle
    /\ optimizer = Unconstructed
    /\ redemptionPath = [t |-> "none", v |-> NoPath]
    /\ marketPath = [t |-> "none", v |-> NoMarketPath]
    /\ liquidityGain = [t |-> "none", v |-> NoGain]
    /\ \/ /\ op = "constructor"
          /\ config \in ExitConfigs
          /\ amount = DUndefined
          /\ redemptionData = [t |-> "undefined", nav |-> DUndefined, cooldownDays |-> DUndefined]
          /\ marketData = NoQuote
       \/ /\ op = "compare"
          /\ config \in CompareConfigs
          /\ amount \in AmountValues
          /\ redemptionData \in RedemptionQuotes
          /\ marketData \in MarketQuotes

\* new ExitOptimizer(config)
Construct ==
    /\ pc = "new"
    /\ optimizer' = NewExitOptimizer(config)
    /\ pc' = IF op = "constructor" THEN "done" ELSE "call"
    /\ UNCHANGED <<op, appVars, scoreVars, engineVars, config, amount, redemptionData, redemptionPath,
                   marketData, marketPath, liquidityGain>>

\* A TypeError ends the caller.
CalculateRedemptionPath ==
    /\ pc = "call"
    /\ op = "compare"
    /\ redemptionPath' = calculateRedemptionPath(optimizer, amount, redemptionData)
    /\ pc' = IF redemptionPath'.t = "throw" THEN "done" ELSE "redeemed"
    /\ UNCHANGED <<op, appVars, scoreVars, engineVars, config, optimizer, amount, redemptionData,
                   marketData, marketPath, liquidityGain>>

CalculateMarketPath ==
    /\ pc = "redeemed"
    /\ marketPath' = calculateMarketPath(optimizer, amount, marketData)
    /\ pc' = IF marketPath'.t = "throw" THEN "done" ELSE "priced"
    /\ UNCHANGED <<op, appVars, scoreVars, engineVars, config, optimizer, amount, redemptionData,
                   redemptionPath, marketData, liquidityGain>>

CalculateLiquidityGain ==
    /\ pc = "priced"
    /\ liquidityGain' =
            [t |-> "return",
             v |-> calculateLiquidityGain(optimizer, redemptionPath.v, marketPath.v)]
    /\ pc' = "done"
    /\ UNCHANGED <<op, appVars, scoreVars, engineVars, config, optimizer, amount, redemptionData,
                   redemptionPath, marketData, marketPath>>

NextExit ==
    \/ Construct
    \/ CalculateRedemptionPath
    \/ CalculateMarketPath
    \/ CalculateLiquidityGain

SpecExit == InitExit /\ [][NextExit]_vars

----------------------------------------------------------------------------
(* Properties of the exit comparator.                                      *)

Redeemed == op = "compare" /\ redemptionPath.t # "none"

\* x in millionths, as an integer.
Millionths(x) == x.m * Pow10(6 - x.e)

\* a * b * c in millionths, from the integers the three numbers hold.
Product3(a, b, c) == a.m * b.m * c.m * Pow10(6 - a.e - b.e - c.e)

DefaultsExample ==
    /\ amount = D(100, 0)
    /\ redemptionData.t = "object"
    /\ redemptionData.nav = D(1, 0)
    /\ redemptionData.cooldownDays = D(7, 0)
    /\ optimizer.dailyYieldRate = D(24, 3)

\* C10: calculateRedemptionPath(amount, quote) returns yieldAccrued =
\* amount * dailyYieldRate * cooldownDays and finalValue = amount * nav +
\* yieldAccrued, fees 0, haircut 0 and timeToLiquidity "<cooldownDays> days";
\* amount 100, nav 1, cooldownDays 7 at the default rate give 116.8.
C10_RedemptionPath ==
    (Redeemed /\ redemptionData.t = "object") =>
        LET path == redemptionPath.v
        IN  /\ redemptionPath.t = "return"
            /\ Millionths(path.yieldAccrued)
                = Product3(amount, optimizer.dailyYieldRate, redemptionData.cooldownDays)
            /\ Millionths(path.finalValue)
                = Product3(amount, redemptionData.nav, D(1, 0))
                    + Product3(amount, optimizer.dailyYieldRate, redemptionData.cooldownDays)
            /\ Millionths(path.fees) = 0
            /\ Millionths(path.haircut) = 0
            /\ redemptionData.cooldownDays = D(7, 0) => path.timeToLiquidity = "7 days"
            /\ redemptionData.cooldownDays = D(75, 1) => path.timeToLiquidity = "7.5 days"
            /\ redemptionData.cooldownDays = D(0, 0) => path.timeToLiquidity = "0 days"
            /\ path.timeToLiquidity = DToString(redemptionData.cooldownDays) \o " days"
            /\ DefaultsExample => Millionths(path.finalValue) = 116800000

C10_Witness ==
    /\ Redeemed
    /\ DefaultsExample
    /\ redemptionPath.t = "return"
    /\ redemptionPath.v.yieldAccrued = D(168, 1)
    /\ redemptionPath.v.finalValue = D(1168, 1)
    /\ redemptionPath.v.timeToLiquidity = "7 days"

Priced == op = "compare" /\ marketPath.t # "none"

\* amount 100 at price 1 under the default slippage and gas estimates.
MarketDefaultsExample ==
    /\ amount = D(100, 0)
    /\ marketData.t = "object"
    /\ marketData.price = D(1, 0)
    /\ optimizer.slippageEstimate = D(4, 3)
    /\ optimizer.gasEstimate = D(5, 0)

\* C11: calculateMarketPath(amount, quote) returns slippageLoss =
\* amount * price * slippageRate, totalCost = slippageLoss + gasCost and
\* finalValue = amount * price - slippageLoss - gasCost, so that finalValue +
\* totalCost = amount * price; amount 100 at price 1 with the defaults gives
\* finalValue 94.6.
C11_MarketPath ==
    (Priced /\ marketData.t = "object") =>
        LET path == marketPath.v
            gross == Product3(amount, marketData.price, D(1, 0))
            slippage == Product3(amount, marketData.price, optimizer.slippageEstimate)
        IN  /\ marketPath.t = "return"
            /\ Millionths(path.slippageLoss) = slippage
            /\ Millionths(path.totalCost) = slippage + Millionths(optimizer.gasEstimate)
            /\ Millionths(path.finalValue)
                = gross - slippage - Millionths(optimizer.gasEstimate)
            /\ Millionths(path.finalValue) + Millionths(path.totalCost) = gross
            /\ MarketDefaultsExample => Millionths(path.finalValue) = 94600000

C11_Witness ==
    /\ Priced
    /\ MarketDefaultsExample
    /\ marketPath.t = "return"
    /\ marketPath.v.slippageLoss = D(4, 1)
    /\ marketPath.v.totalCost = D(54, 1)
    /\ marketPath.v.finalValue = D(946, 1)

Compared == op = "compare" /\ liquidityGain.t = "return"

\* redemptionPath.finalValue - marketPath.finalValue in millionths, from the
\* two paths the comparison was given.
NetMillionths ==
    Millionths(redemptionPath.v.finalValue) - Millionths(marketPath.v.finalValue)

\* C12: calculateLiquidityGain sets netDifference = redemptionPath.finalValue -
\* marketPath.finalValue and recommends WAIT exactly when netDifference > 0; a
\* tie or a higher market value recommends EXIT_NOW (116.8 against 94.6 is a
\* difference of 22.2 and WAIT).
C12_Recommendation ==
    Compared =>
        /\ Millionths(liquidityGain.v.netDifference) = NetMillionths
        /\ liquidityGain.v.recommendation = "WAIT" <=> NetMillionths > 0
        /\ NetMillionths <= 0 => liquidityGain.v.recommendation = "EXIT_NOW"
        /\ (DefaultsExample /\ MarketDefaultsExample) =>
                /\ liquidityGain.v.netDifference = D(222, 1)
                /\ liquidityGain.v.recommendation = "WAIT"

\* A tie: both paths are worth 94.6.
C12_Witness ==
    /\ Compared
    /\ redemptionPath.v.finalValue = D(946, 1)
    /\ marketPath.v.finalValue = D(946, 1)
    /\ liquidityGain.v.netDifference = D(0, 0)
    /\ liquidityGain.v.recommendation = "EXIT_NOW"

Abs(n) == IF n < 0 THEN -n ELSE n

\* The value of a redemption of the compared path stressed by the fraction
\* |totalCost - yieldAccrued| / amount, in millionths: amount * (1 - d) +
\* yieldAccrued.
StressedAtBreakeven ==
    Millionths(amount)
        - Abs(Millionths(marketPath.v.totalCost) - Millionths(redemptionPath.v.yieldAccrued))
        + Millionths(redemptionPath.v.yieldAccrued)

\* The change of the stressed value over half a unit of the last digit of
\* the returned percentage (0.005 percent of amount), in millionths, rounded up.
BreakevenTolerance == Millionths(amount) \div 20000 + 1

\* C13: the breakeven de-peg percentage |(marketPath.totalCost -
\* redemptionPath.yieldAccrued) / amount| * 100 is the de-peg at which waiting
\* and exiting are worth the same: the redemption stressed by that fraction
\* equals marketPath.finalValue (to the precision of the returned percentage).
C13_BreakevenEqualizes ==
    (Compared /\ Millionths(amount) > 0) =>
        Abs(StressedAtBreakeven - Millionths(marketPath.v.finalValue))
            <= BreakevenTolerance

\* The three scenarios of the comparison: the key of the analysis, the name
\* reported and the de-peg fraction.
ScenarioTable ==
    {[key |-> "bestCase", name |-> "Best", fraction |-> D(0, 0), percent |-> "0.00"],
     [key |-> "midCase", name |-> "Mid", fraction |-> D(5, 3), percent |-> "0.50"],
     [key |-> "worstCase", name |-> "Worst", fraction |-> D(2, 2), percent |-> "2.00"]}

\* amount * (1 - d) + yieldAccrued in millionths, from the compared path.
StressedRedemption(d) ==
    Millionths(redemptionPath.v.amount)
        - Product3(redemptionPath.v.amount, d, D(1, 0))
        + Millionths(redemptionPath.v.yieldAccrued)

\* The decimal text of x millionths, x a whole number of hundredths.
ExactText(x) ==
    (IF x < 0 THEN "-" ELSE "") \o ToString(Abs(x) \div 1000000)
        \o "." \o Digits((Abs(x) \div 10000) % 100, 2)

\* The two-decimal text of x millionths, rounded to the nearest hundredth
\* (halves away from zero).
TwoDecimalText(x) ==
    (IF x < 0 THEN "-" ELSE "")
        \o ToString(((Abs(x) + 5000) \div 10000) \div 100)
        \o "." \o Digits(((Abs(x) + 5000) \div 10000) % 100, 2)

\* C14 as stated: the three scenarios report redemptionValue = amount * (1 - d)
\* + yieldAccrued, marketValue = marketPath.finalValue and gainLoss =
\* redemptionValue - marketValue themselves.
C14_ScenarioValuesExact ==
    Compared =>
        \A sc \in ScenarioTable :
            LET case == liquidityGain.v.analysis[sc.key]
                rv == StressedRedemption(sc.fraction)
                mv == Millionths(marketPath.v.finalValue)
            IN  /\ rv % 10000 = 0 /\ case.redemptionValue = ExactText(rv)
                /\ mv % 10000 = 0 /\ case.marketValue = ExactText(mv)
                /\ case.gainLoss = ExactText(rv - mv)

\* C14 (amended): the comparison contains exactly three scenarios, best, mid
\* and worst, with de-peg fractions 0, 0.005 and 0.02; each reports as
\* two-decimal strings the values amount * (1 - d) + yieldAccrued,
\* marketPath.finalValue (the same in all three) and their difference, and
\* recommends WAIT exactly when the unrounded redemption value exceeds the
\* unrounded market value.
C14_Scenarios ==
    Compared =>
        /\ DOMAIN liquidityGain.v.analysis = {sc.key : sc \in ScenarioTable}
        /\ \A sc \in ScenarioTable :
            LET case == liquidityGain.v.analysis[sc.key]
                rv == StressedRedemption(sc.fraction)
                mv == Millionths(marketPath.v.finalValue)
            IN  /\ case.scenario = sc.name
                /\ case.depegPercent = sc.percent
                /\ case.redemptionValue = TwoDecimalText(rv)
                /\ case.marketValue = TwoDecimalText(mv)
                /\ case.gainLoss = TwoDecimalText(rv - mv)
                /\ case.recommendation = "WAIT" <=> rv > mv
                /\ case.recommendation \in {"WAIT", "EXIT_NOW"}

\* amount 1 held 7 days at 0.024: the mid scenario is worth 1.163, reported
\* "1.16", against a market exit of -4.004, reported "-4.00".
C14_Witness ==
    /\ Compared
    /\ amount = D(1, 0)
    /\ redemptionPath.v.yieldAccrued = D(168, 3)
    /\ marketPath.v.finalValue = D(-4004, 3)
    /\ liquidityGain.v.analysis.midCase.redemptionValue = "1.16"
    /\ liquidityGain.v.analysis.midCase.marketValue = "-4.00"
    /\ liquidityGain.v.analysis.midCase.gainLoss = "5.17"
    /\ liquidityGain.v.analysis.midCase.recommendation = "WAIT"
    /\ liquidityGain.v.analysis.worstCase.redemptionValue = "1.15"

\* netDifference and redemptionPath.finalValue as integers of one common unit.
PercentExponent ==
    IF liquidityGain.v.netDifference.e > redemptionPath.v.finalValue.e
    THEN liquidityGain.v.netDifference.e
    ELSE redemptionPath.v.finalValue.e
PercentNumerator ==
    liquidityGain.v.netDifference.m
        * Pow10(PercentExponent - liquidityGain.v.netDifference.e)
PercentDenominator ==
    redemptionPath.v.finalValue.m
        * Pow10(PercentExponent - redemptionPath.v.finalValue.e)

\* The whole hundredths in |n| * 100 / f and what is left over, f > 0.
PercentHundredths(n, f) ==
    ((Abs(n) * 100) \div f) * 100 + (((Abs(n) * 100) % f) * 100) \div f
PercentRemainder(n, f) == (((Abs(n) * 100) % f) * 100) % f

\* The text of k hundredths with the sign of n.
SignedHundredths(n, k) ==
    (IF n < 0 THEN "-" ELSE "") \o ToString(k \div 100) \o "." \o Digits(k % 100, 2)

\* C15 as stated: percentDifference is netDifference /
\* redemptionPath.finalValue * 100 itself whenever redemptionPath.finalValue
\* is not zero.
C15_PercentExact ==
    (Compared /\ PercentDenominator > 0) =>
        /\ PercentRemainder(PercentNumerator, PercentDenominator) = 0
        /\ liquidityGain.v.percentDifference
            = SignedHundredths(PercentNumerator,
                               PercentHundredths(PercentNumerator, PercentDenominator))

\* C15 (amended): percentDifference is the two-decimal string of
\* netDifference / redemptionPath.finalValue * 100 (rounded to the nearest
\* hundredth) whenever redemptionPath.finalValue is not zero; when it is zero
\* the division is unguarded and the string is "Infinity" or "-Infinity" by
\* the sign of netDifference, "NaN" when netDifference is zero too: never
\* "0.00", a sentinel or an error.
C15_PercentDifference ==
    Compared =>
        LET n == PercentNumerator
            f == PercentDenominator
        IN  /\ f >= 0
            /\ f > 0 =>
                liquidityGain.v.percentDifference
                    = SignedHundredths(n,
                        PercentHundredths(n, f)
                            + (IF 2 * PercentRemainder(n, f) >= f THEN 1 ELSE 0))
            /\ (f = 0 /\ n > 0) => liquidityGain.v.percentDifference = "Infinity"
            /\ (f = 0 /\ n < 0) => liquidityGain.v.percentDifference = "-Infinity"
            /\ (f = 0 /\ n = 0) => liquidityGain.v.percentDifference = "NaN"

\* A redemption worth nothing (nav 0, no cooldown) against a market exit
\* worth more: the percentage is "-Infinity".
C15_Witness ==
    /\ Compared
    /\ Millionths(amount) > 0
    /\ redemptionPath.v.finalValue = D(0, 0)
    /\ DGt(marketPath.v.finalValue, D(0, 0))
    /\ liquidityGain.v.percentDifference = "-Infinity"

Constructed == op = "constructor" /\ pc = "done"

\* The value a parameter takes by the rule "the default when omitted, the
\* caller's value whenever supplied".
Configured(supplied, default) == IF supplied.t = "undefined" THEN default ELSE supplied

\* C16: each of slippageRate, gasCost, dailyYieldRate and depegScenarios takes
\* its default (0.004, 5, 0.024, {best: 0, mid: 0.005, worst: 0.02}) when the
\* configuration omits it and the caller's value whenever the configuration
\* supplies one, a supplied 0 included.
C16_ConfigHonoured ==
    Constructed =>
        /\ optimizer.slippageEstimate = Configured(config.slippageEstimate, D(4, 3))
        /\ optimizer.gasEstimate = Configured(config.gasEstimate, D(5, 0))
        /\ optimizer.dailyYieldRate = Configured(config.dailyYieldRate, D(24, 3))
        /\ optimizer.depegRiskScenarios =
                IF config.depegRiskScenarios.t = "undefined"
                THEN [best |-> D(0, 0), mid |-> D(5, 3), worst |-> D(2, 2)]
                ELSE [best |-> config.depegRiskScenarios.best,
                      mid |-> config.depegRiskScenarios.mid,
                      worst |-> config.depegRiskScenarios.worst]

\* C20: calculateRedemptionPath and calculateMarketPath never throw, whatever
\* the quote they are given, a null or an absent one included.
C20_PathsNeverThrow ==
    /\ Redeemed => redemptionPath.t = "return"
    /\ Priced => marketPath.t = "return"

----------------------------------------------------------------------------
(* The monitoring loop of the engine: startMonitoringLoop, the poll cycles *)
(* it chains with setTimeout, and stopMonitoringLoop.                      *)

\* Polls in flight and timers pending, together.
MaxChains == 2

\* The operations a caller repeats with identical arguments.
RepeatedOps == {"calculatePulseScore", "getStatusFromScore", "compare"}

\* What each webhook may answer: a failure or a stressed reading, and for
\* Pendle a healthy reading too.
PendleResponses ==
    {FailedResponse,
     Object("", Num(Now0 + MaxDayOffset * DayMs), Undefined, Undefined, Undefined, Undefined),
     Object("", Num(Now0 + DayMs), Undefined, Undefined, Undefined, Num(700))}
EthenaResponses ==
    {FailedResponse,
     Object("", Undefined, Undefined, Num(-10), Num(30), Undefined)}
FalconResponses ==
    {FailedResponse,
     Object("", Undefined, Num(2000), Undefined, Undefined, Undefined)}

PollResponses ==
    {[p \in ProtocolKeys |->
        CASE p = "pendle" -> rp
          [] p = "ethena" -> re
          [] p = "falcon" -> rf] :
        rp \in PendleResponses, re \in EthenaResponses, rf \in FalconResponses}

\* The pages the engine may run on: any of the three protocol cards, and the
\* ticker and global gauge of the landing page.
Pages ==
    {[BlankPage EXCEPT !.cards = c, !.ticker = landing, !.globalScore = landing] :
        c \in SUBSET ProtocolKeys, landing \in BOOLEAN}

InitPoll ==
    /\ pc = "page"
    /\ AppIdle
    /\ op = "monitor"
    /\ ScoreIdle
    /\ ExitIdle
    /\ engine = NewRiskCoreEngine
    /\ page \in Pages
    /\ inFlight = 0
    /\ timers = 0
    /\ cycle = NoCycle
    /\ first = NoFirst

\* The loop runs on a page of its own, or between two calls of a caller that
\* repeats a call.
Monitoring == op = "monitor" \/ pc = "between"

\* startMonitoringLoop(): returns at once when already polling; otherwise
\* sets the flag and calls poll, which issues its three fetches.
StartMonitoringLoop ==
    /\ Monitoring
    /\ IF engine.isPolling
       THEN UNCHANGED <<engine, inFlight>>
       ELSE /\ inFlight + timers < MaxChains
            /\ engine' = [engine EXCEPT !.isPolling = TRUE]
            /\ inFlight' = inFlight + 1
    /\ UNCHANGED <<pc, op, appVars, scoreVars, exitVars, page, timers, cycle, first>>

\* stopMonitoringLoop()
StopMonitoringLoop ==
    /\ Monitoring
    /\ engine' = [engine EXCEPT !.isPolling = FALSE]
    /\ UNCHANGED <<pc, op, appVars, scoreVars, exitVars, page, inFlight, timers, cycle, first>>

\* A setTimeout callback runs poll, which issues its three fetches.
TimerFires ==
    /\ Monitoring
    /\ timers > 0
    /\ timers' = timers - 1
    /\ inFlight' = inFlight + 1
    /\ UNCHANGED <<pc, op, appVars, scoreVars, exitVars, engine, page, cycle, first>>

\* The three fetches of a poll have settled: the rest of poll runs, and the
\* next poll is scheduled if the engine is still polling.
PollSettles ==
    /\ Monitoring
    /\ inFlight > 0
    /\ \E responses \in PollResponses :
        LET r == PollBody(engine, page, responses, now)
        IN  /\ engine' = r.this
            /\ page' = r.page
            /\ cycle' = [done |-> TRUE, responses |-> responses, data |-> r.data,
                         dispatched |-> r.dispatched]
            /\ timers' = IF r.this.isPolling THEN timers + 1 ELSE timers
    /\ inFlight' = inFlight - 1
    /\ UNCHANGED <<pc, op, appVars, scoreVars, exitVars, first>>

NextPoll ==
    \/ StartMonitoringLoop
    \/ StopMonitoringLoop
    \/ TimerFires
    \/ PollSettles

SpecPoll == InitPoll /\ [][NextPoll]_vars

\* The name a fetch gives the protocol of a key.
ProtocolName(key) ==
    CASE key = "pendle" -> "Pendle"
      [] key = "ethena" -> "Ethena"
      [] key = "falcon" -> "Falcon"

\* What a poll cycle that ended leaves, for the protocols in keys: a failed
\* fetch is a null record, a fetch that succeeded is a record of its own
\* protocol, the score recorded is the score of that record (0 for null), and
\* the pulseScoreUpdate event was dispatched.
CycleOutcome(keys) ==
    /\ cycle.dispatched
    /\ \A p \in ProtocolKeys :
        /\ cycle.responses[p] = FailedResponse => cycle.data[p] = NullData
        /\ cycle.responses[p] # FailedResponse =>
            /\ cycle.data[p].t = "object"
            /\ cycle.data[p].protocol = ProtocolName(p)
    /\ \A p \in keys :
        /\ engine.lastPulseScores[p] = Num(ScoreOf(cycle.data[p]))
        /\ cycle.responses[p] = FailedResponse => engine.lastPulseScores[p] = Num(0)

\* C19 as stated: in every poll cycle, whichever fetches fail, every protocol
\* is scored from its own data (a failed one 0), the score is recorded and
\* the event is dispatched.
C19_EveryProtocolRecorded == cycle.done => CycleOutcome(ProtocolKeys)

\* C19 (amended): in every poll cycle, whichever fetches fail, the cycle
\* completes: a failed fetch is a null record and the event is dispatched;
\* every protocol whose card is on the page is scored from its own data (a
\* failed one 0) and the score recorded.
C19_PollCycle ==
    cycle.done =>
        /\ CycleOutcome(page.cards)
        /\ \A p \in ProtocolKeys \ page.cards : engine.lastPulseScores[p] = Undefined

\* Pendle and Falcon failed, Ethena answered a stressed reading: with all
\* three cards on the page Ethena is scored below 100 and the others 0.
C19_Witness ==
    /\ cycle.done
    /\ page.cards = ProtocolKeys
    /\ cycle.responses["pendle"] = FailedResponse
    /\ cycle.responses["falcon"] = FailedResponse
    /\ cycle.responses["ethena"] # FailedResponse
    /\ engine.lastPulseScores["pendle"] = Num(0)
    /\ engine.lastPulseScores["falcon"] = Num(0)
    /\ engine.lastPulseScores["ethena"].v \in 1..99
    /\ cycle.dispatched

----------------------------------------------------------------------------
(* A caller that makes the same call twice, the monitoring loop and the    *)
(* clock running in between.  A call is given the object it is a method of *)
(* and its arguments, and leaves them as the method leaves them.           *)

\* The mutant of C17: the score capped by the score last recorded.
PulseScoreCall_Smoothed(this, data, clock) ==
    [this |-> this,
     protocolData |-> data,
     ret |-> IF /\ this.lastPulseScores["pendle"].t = "number"
                /\ this.lastPulseScores["pendle"].v < calculatePulseScore(data, clock).v
             THEN Return(this.lastPulseScores["pendle"].v)
             ELSE calculatePulseScore(data, clock)]

\* The mutant of C18: the score recorded by the calculation itself.
PulseScoreCall_Records(this, data, clock) ==
    [this |-> [this EXCEPT !.lastPulseScores["pendle"] =
                                Num(calculatePulseScore(data, clock).v)],
     protocolData |-> data,
     ret |-> calculatePulseScore(data, clock)]

\* this.calculatePulseScore(protocolData): no assignment to this or to the
\* argument.
PulseScoreCall(this, data, clock) ==
    [this |-> this, protocolData |-> data, ret |-> calculatePulseScore(data, clock)]

\* this.getStatusFromScore(score)
StatusCall(this, score) ==
    [this |-> this, score |-> score, ret |-> getStatusFromScore(score)]

\* this.calculateRedemptionPath(amount, redemptionData)
RedemptionPathCall(this, amt, data) ==
    [this |-> this, amount |-> amt, redemptionData |-> data,
     ret |-> calculateRedemptionPath(this, amt, data)]

\* this.calculateMarketPath(amount, marketData)
MarketPathCall(this, amt, data) ==
    [this |-> this, amount |-> amt, marketData |-> data,
     ret |-> calculateMarketPath(this, amt, data)]

\* this.calculateLiquidityGain(redemptionPath, marketPath)
LiquidityGainCall(this, redemptionPath_, marketPath_) ==
    [this |-> this, redemptionPath |-> redemptionPath_, marketPath |-> marketPath_,
     ret |-> calculateLiquidityGain(this, redemptionPath_, marketPath_)]

\* The metrics a score is asked for twice: none, a Pendle position a day from
\* maturity, one without a date, a stressed Ethena and a Falcon in cooldown.
RepeatedMetrics ==
    {NullData,
     Object("Pendle", Num(Now0 + DayMs), Undefined, Undefined, Undefined, Num(950)),
     Object("Pendle", Undefined, Undefined, Undefined, Undefined, Num(850)),
     Object("Ethena", Undefined, Undefined, Num(-10), Num(30), Num(950)),
     Object("Falcon", Undefined, Num(4000), Undefined, Undefined, Undefined)}

RepeatedScores == {24, 75}

InitCalls ==
    /\ pc = "call"
    /\ AppIdle
    /\ now = Now0
    /\ pulse = NotCalled
    /\ status = NoStatus
    /\ config = InstanceConfig
    /\ optimizer = NewExitOptimizer(InstanceConfig)
    /\ redemptionPath = [t |-> "none", v |-> NoPath]
    /\ marketPath = [t |-> "none", v |-> NoMarketPath]
    /\ liquidityGain = [t |-> "none", v |-> NoGain]
    /\ engine = NewRiskCoreEngine
    /\ page = [BlankPage EXCEPT !.cards = ProtocolKeys, !.ticker = TRUE,
                                !.globalScore = TRUE]
    /\ inFlight = 0
    /\ timers = 0
    /\ cycle = NoCycle
    /\ first = NoFirst
    /\ \/ /\ op = "calculatePulseScore"
          /\ protocolData \in RepeatedMetrics
          /\ scoreArg = 0
          /\ amount = DUndefined
          /\ redemptionData = [t |-> "undefined", nav |-> DUndefined, cooldownDays |-> DUndefined]
          /\ marketData = NoQuote
       \/ /\ op = "getStatusFromScore"
          /\ scoreArg \in RepeatedScores
          /\ protocolData = NullData
          /\ amount = DUndefined
          /\ redemptionData = [t |-> "undefined", nav |-> DUndefined, cooldownDays |-> DUndefined]
          /\ marketData = NoQuote
       \/ /\ op = "compare"
          /\ protocolData = NullData
          /\ scoreArg = 0
          /\ amount = D(100, 0)
          /\ redemptionData \in
                {[t |-> "object", nav |-> D(1, 0), cooldownDays |-> D(MaxCooldownDays, 0)],
                 [t |-> "null", nav |-> DUndefined, cooldownDays |-> DUndefined]}
          /\ marketData \in
                {[t |-> "object", price |-> D(1, 0), liquidity |-> D(1000000, 0),
                  dex |-> "Curve"],
                 [t |-> "null", price |-> DUndefined, liquidity |-> DUndefined, dex |-> ""]}

CallCalculatePulseScore ==
    /\ pc = "call"
    /\ op = "calculatePulseScore"
    /\ LET r == PulseScoreCall(engine, protocolData, now)
       IN  /\ pulse' = r.ret
           /\ engine' = r.this
           /\ protocolData' = r.protocolData
    /\ pc' = "done"
    /\ UNCHANGED <<op, appVars, now, scoreArg, status, exitVars, page, inFlight, timers, cycle, first>>

CallGetStatusFromScore ==
    /\ pc = "call"
    /\ op = "getStatusFromScore"
    /\ LET r == StatusCall(engine, scoreArg)
       IN  /\ status' = r.ret
           /\ engine' = r.this
           /\ scoreArg' = r.score
    /\ pc' = "done"
    /\ UNCHANGED <<op, appVars, now, protocolData, pulse, exitVars, page, inFlight, timers, cycle, first>>

CallCalculateRedemptionPath ==
    /\ pc = "call"
    /\ op = "compare"
    /\ LET r == RedemptionPathCall(optimizer, amount, redemptionData)
       IN  /\ redemptionPath' = r.ret
           /\ optimizer' = r.this
           /\ amount' = r.amount
           /\ redemptionData' = r.redemptionData
           /\ pc' = IF r.ret.t = "throw" THEN "done" ELSE "redeemed"
    /\ UNCHANGED <<op, appVars, scoreVars, engineVars, config, marketData, marketPath, liquidityGain>>

CallCalculateMarketPath ==
    /\ pc = "redeemed"
    /\ LET r == MarketPathCall(optimizer, amount, marketData)
       IN  /\ marketPath' = r.ret
           /\ optimizer' = r.this
           /\ amount' = r.amount
           /\ marketData' = r.marketData
           /\ pc' = IF r.ret.t = "throw" THEN "done" ELSE "priced"
    /\ UNCHANGED <<op, appVars, scoreVars, engineVars, config, redemptionData, redemptionPath,
                   liquidityGain>>

CallCalculateLiquidityGain ==
    /\ pc = "priced"
    /\ LET r == LiquidityGainCall(optimizer, redemptionPath.v, marketPath.v)
       IN  /\ liquidityGain' = [t |-> "return", v |-> r.ret]
           /\ optimizer' = r.this
           /\ redemptionPath' = [redemptionPath EXCEPT !.v = r.redemptionPath]
           /\ marketPath' = [marketPath EXCEPT !.v = r.marketPath]
    /\ pc' = "done"
    /\ UNCHANGED <<op, appVars, scoreVars, engineVars, config, amount, redemptionData, marketData>>

\* Time passes between the two calls.
Tick ==
    /\ pc = "between"
    /\ now' \in {n \in Nows : n > now}
    /\ UNCHANGED <<pc, op, appVars, protocolData, pulse, scoreArg, status, exitVars, engineVars>>

\* The caller keeps what the first call returned, and the time of the call.
KeepFirst ==
    /\ pc = "done"
    /\ op \in RepeatedOps
    /\ first.t = "none"
    /\ first' = [t |-> "kept", now |-> now, pulse |-> pulse, status |-> status,
                 redemptionPath |-> redemptionPath, marketPath |-> marketPath,
                 liquidityGain |-> liquidityGain]
    /\ pc' = "between"
    /\ UNCHANGED <<op, appVars, scoreVars, exitVars, engine, page, inFlight, timers, cycle>>

\* The caller makes the call again with the same arguments.
CallAgain ==
    /\ pc = "between"
    /\ pulse' = NotCalled
    /\ status' = NoStatus
    /\ redemptionPath' = [t |-> "none", v |-> NoPath]
    /\ marketPath' = [t |-> "none", v |-> NoMarketPath]
    /\ liquidityGain' = [t |-> "none", v |-> NoGain]
    /\ pc' = "call"
    /\ UNCHANGED <<op, appVars, now, protocolData, scoreArg, config, optimizer, amount,
                   redemptionData, marketData, engineVars>>

NextCalls ==
    \/ CallCalculatePulseScore
    \/ CallGetStatusFromScore
    \/ CallCalculateRedemptionPath
    \/ CallCalculateMarketPath
    \/ CallCalculateLiquidityGain
    \/ Tick
    \/ StartMonitoringLoop
    \/ StopMonitoringLoop
    \/ TimerFires
    \/ PollSettles
    \/ KeepFirst
    \/ CallAgain

SpecCalls == InitCalls /\ [][NextCalls]_vars

CalledTwice == pc = "done" /\ first.t = "kept"

CoreCall == pc \in {"call", "redeemed", "priced"}

\* C18: calculatePulseScore, getStatusFromScore, calculateRedemptionPath,
\* calculateMarketPath and calculateLiquidityGain leave every field of the
\* engine and of the optimizer and every argument unchanged, and
\* calculateLiquidityGain leaves the two paths it is given unchanged.
C18_SideEffectFree ==
    [][CoreCall =>
        /\ engine' = engine
        /\ optimizer' = optimizer
        /\ protocolData' = protocolData
        /\ scoreArg' = scoreArg
        /\ amount' = amount
        /\ redemptionData' = redemptionData
        /\ marketData' = marketData
        /\ pc = "priced" => (redemptionPath' = redemptionPath /\ marketPath' = marketPath)
      ]_vars

\* A comparison completed on an engine that holds recorded scores and is
\* polling.
C18_Witness ==
    /\ CalledTwice
    /\ op = "compare"
    /\ liquidityGain.t = "return"
    /\ engine.isPolling
    /\ engine.lastPulseScores["ethena"].t = "number"
    /\ optimizer = NewExitOptimizer(InstanceConfig)

----------------------------------------------------------------------------
(* The audit manager: one call of generateTaxCSV on a list of logs, or of  *)
(* calculateCostBasis on a log.                                            *)

\* The longest list of yield logs.
MaxLogs == 2

\* The yield logs: plain texts, an asset with a comma, one with quotes and a
\* comma, one with a quote and no comma, one with a line feed; amounts and
\* rates present or missing; a Currency of its own or none.
LogSamples ==
    {[Timestamp |-> <<"2025-01-15T10:00:00Z">>, Asset |-> <<"USDe">>,
      Protocol |-> <<"Ethena">>, RewardAmount |-> D(15, 1),
      ExchangeRate |-> D(1295555, 5), RiskScore |-> Num(85), Currency |-> Str("KES")],
     [Timestamp |-> <<"2025-02-01T08:30:00Z">>, Asset |-> <<"PT", Comma, "sUSDe">>,
      Protocol |-> <<"Pendle", Comma, " v2">>, RewardAmount |-> D(25, 2),
      ExchangeRate |-> DUndefined, RiskScore |-> Undefined, Currency |-> Str("USD")],
     [Timestamp |-> <<"2025-02-02T09:00:00Z">>,
      Asset |-> <<"the ", Quote, "safe", Quote, Comma, " one">>,
      Protocol |-> <<"Falcon">>, RewardAmount |-> D(123456789, 9),
      ExchangeRate |-> D(2, 0), RiskScore |-> Num(0), Currency |-> NoString],
     [Timestamp |-> <<"2025-03-01T00:00:00Z">>, Asset |-> <<"5", Quote, " vault">>,
      Protocol |-> <<"Falcon">>, RewardAmount |-> DUndefined,
      ExchangeRate |-> D(1, 0), RiskScore |-> Num(60), Currency |-> Str("")],
     [Timestamp |-> <<"2025-03-02T00:00:00Z">>, Asset |-> <<"USDf", LineFeed, "locked">>,
      Protocol |-> <<"Falcon">>, RewardAmount |-> D(2, 0),
      ExchangeRate |-> D(0, 0), RiskScore |-> Num(40), Currency |-> Str("EUR")]}

LogLists == UNION {[1..n -> LogSamples] : n \in 0..MaxLogs}

InitAudit ==
    /\ pc = "call"
    /\ ScoreIdle
    /\ ExitIdle
    /\ RiskCoreIdle
    /\ agent = AgentIdle
    /\ handler = HandlerIdle
    /\ sidebar = SidebarIdle
    /\ \E location \in {"", "KE", "US"} :
        \/ /\ op = "generateTaxCSV"
           /\ \E logs \in LogLists, currency \in {"KES", "USD"} :
                audit = [AuditIdle EXCEPT
                            !.this = [NewAuditManager([userLocation |-> location])
                                        EXCEPT !.yieldLogs = logs],
                            !.currency = currency]
        \/ /\ op = "calculateCostBasis"
           /\ \E log \in LogSamples :
                audit = [AuditIdle EXCEPT
                            !.this = NewAuditManager([userLocation |-> location]),
                            !.yieldLog = log]

GenerateTaxCSV ==
    /\ pc = "call"
    /\ op = "generateTaxCSV"
    /\ audit' = [audit EXCEPT
                    !.csv = [t |-> "text", v |-> generateTaxCSV(audit.this, audit.currency)]]
    /\ pc' = "done"
    /\ UNCHANGED <<op, scoreVars, exitVars, engineVars, agent, handler, sidebar>>

CalculateCostBasis ==
    /\ pc = "call"
    /\ op = "calculateCostBasis"
    /\ audit' = [audit EXCEPT
                    !.costBasis = [t |-> "return",
                                   v |-> calculateCostBasis(audit.this, audit.yieldLog)]]
    /\ pc' = "done"
    /\ UNCHANGED <<op, scoreVars, exitVars, engineVars, agent, handler, sidebar>>

NextAudit == GenerateTaxCSV \/ CalculateCostBasis

SpecAudit == InitAudit /\ [][NextAudit]_vars

\* Splitting a CSV text: a cell that opens with a quote runs to its closing
\* quote, a doubled quote inside it standing for one quote; any other cell
\* runs to the next comma or line feed.  The reader is at the start of a
\* cell ("start"), in an unquoted cell ("plain"), in a quoted cell
\* ("quoted") or after a quote in a quoted cell ("closing").
CsvStep(st, ch) ==
    IF st.mode = "quoted"
    THEN IF ch = Quote
         THEN [st EXCEPT !.mode = "closing"]
         ELSE [st EXCEPT !.cell = Append(st.cell, ch)]
    ELSE IF ch = Comma
    THEN [st EXCEPT !.mode = "start", !.cell = <<>>, !.row = Append(st.row, st.cell)]
    ELSE IF ch = LineFeed
    THEN [mode |-> "start", cell |-> <<>>, row |-> <<>>,
          rows |-> Append(st.rows, Append(st.row, st.cell))]
    ELSE IF ch = Quote /\ st.mode = "start"
    THEN [st EXCEPT !.mode = "quoted"]
    ELSE IF ch = Quote /\ st.mode = "closing"
    THEN [st EXCEPT !.mode = "quoted", !.cell = Append(st.cell, ch)]
    ELSE [st EXCEPT !.mode = "plain", !.cell = Append(st.cell, ch)]

RECURSIVE CsvParse(_, _)
CsvParse(text, st) ==
    IF text = <<>> THEN Append(st.rows, Append(st.row, st.cell))
    ELSE
        LET next == CsvStep(st, Head(text))
        IN  IF next.mode = "" THEN <<>> ELSE CsvParse(Tail(text), next)

\* The rows of cells a CSV text splits into.
CsvSplit(text) ==
    CsvParse(text, [mode |-> "start", cell |-> <<>>, row |-> <<>>, rows |-> <<>>])

Generated == pc = "done" /\ op = "generateTaxCSV"

\* C21: generateTaxCSV writes one header row and one row per log in log
\* order, every row of 8 cells, such that splitting the text by the rules of
\* CSV gives back these rows with the original cell texts.
C21_CsvRoundTrip ==
    Generated =>
        /\ audit.csv.t = "text"
        /\ CsvSplit(audit.csv.v) = CsvRows(audit.this, audit.currency)
        /\ Len(CsvSplit(audit.csv.v)) = Len(audit.this.yieldLogs) + 1
        /\ \A r \in 1..Len(CsvSplit(audit.csv.v)) : Len(CsvSplit(audit.csv.v)[r]) = 8

CostBasisDone == pc = "done" /\ op = "calculateCostBasis"

\* The currency the reports page falls back on for the user's location.
LocationCurrency(this) == IF this.userLocation = "KE" THEN "KES" ELSE "USD"

\* C30: calculateCostBasis tags its result with the log's own Currency when
\* the log has one, and with the currency of the location (KES for KE, USD
\* otherwise) only when the log has none.
C30_LogCurrencyKept ==
    CostBasisDone =>
        audit.costBasis.v.currency =
            IF StrTruthy(audit.yieldLog.Currency)
            THEN audit.yieldLog.Currency.v
            ELSE LocationCurrency(audit.this)

\* Every call of startMonitoringLoop that passes the isPolling test makes a
\* poll closure of its own, and the chain of that closure is alive while one
\* of its cycles is in flight or its timer is pending; a chain has one cycle
\* or one timer at a time, so the chains alive are counted by:
ChainsAlive == inFlight + timers

\* C22: under every interleaving of start and stop calls, timer firings and
\* fetch completions, at most one polling chain is alive.
C22_SingleChain == op = "monitor" => ChainsAlive <= 1

\* A poll cycle begins: poll is entered and issues its three fetches.
CycleBegins == inFlight' > inFlight

\* C23: once stopMonitoringLoop has run and the loop was not started again
\* (isPolling is false), no poll cycle begins, so no fetch is issued and no
\* pulseScoreUpdate event is dispatched by such a cycle.
C23_NoCycleAfterStop ==
    [][(op = "monitor" /\ CycleBegins) => engine'.isPolling]_vars

\* The penalties calculatePulseScore subtracts for a record, before the clamp.
TotalPenalty(data) ==
    (IF data.protocol = "Pendle" THEN PendleTemporalPenalty(data, now) ELSE 0)
    + (IF data.protocol = "Falcon" THEN FalconTemporalPenalty(data) ELSE 0)
    + (IF data.protocol = "Ethena" THEN DepegPenalty(data) ELSE 0)
    + (IF data.confidence # Undefined THEN LivenessPenalty(data) ELSE 0)

\* The least score of a record of a protocol.
ScoreFloor(protocol) ==
    CASE protocol = "Pendle" -> 40
      [] protocol = "Falcon" -> 45
      [] OTHER -> 35

\* C27: for every record that is not null the total penalty is at most 65 and
\* the score is at least 35 (40 for Pendle, 45 for Falcon, 35 for Ethena), so
\* the clamp leaves 100 - penalty as it is and the status of the score is not
\* Critical; Critical is the status of the score 0 of a null record only.
C27_ScoreFloor ==
    Scored =>
        /\ IsObject(protocolData) =>
            /\ TotalPenalty(protocolData) <= 65
            /\ pulse.v = 100 - TotalPenalty(protocolData)
            /\ pulse.v >= ScoreFloor(protocolData.protocol)
            /\ pulse.v >= 35
        /\ getStatusFromScore(pulse.v).status = "Critical"
            <=> ~IsObject(protocolData)

C27_Witness ==
    /\ Scored
    /\ IsObject(protocolData)
    /\ protocolData.protocol = "Pendle"
    /\ TotalPenalty(protocolData) = 60
    /\ pulse = Return(40)
    /\ getStatusFromScore(pulse.v).status = "Warning"

\* C28: the best-case scenario (de-peg 0) reproduces the headline comparison:
\* its redemptionValue is redemptionPath.finalValue, its gainLoss is
\* netDifference (both as the scenario writes numbers, with two decimals) and
\* its recommendation is the recommendation of the comparison.
C28_BestCaseIsHeadline ==
    Compared =>
        LET best == liquidityGain.v.analysis.bestCase
        IN  /\ best.redemptionValue =
                    TwoDecimalText(Millionths(redemptionPath.v.finalValue))
            /\ best.gainLoss = TwoDecimalText(Millionths(liquidityGain.v.netDifference))
            /\ best.recommendation = liquidityGain.v.recommendation

----------------------------------------------------------------------------
(* The agent's message lock under concurrent calls.                       *)

MaxSends == 3
UserMessages == {"Is sUSDe safe?", "Exit Falcon now?"}

InitAgent ==
    /\ pc = "page"
    /\ op = "agent"
    /\ ScoreIdle
    /\ ExitIdle
    /\ RiskCoreIdle
    /\ AppIdle

\* A call of nairobi.sendMessage, up to its await.
SendMessage ==
    /\ op = "agent"
    /\ agent.calls < MaxSends
    /\ \E userMessage \in UserMessages :
        LET r == sendMessage(agent.this, userMessage)
        IN  agent' = [this |-> r.this,
                      calls |-> agent.calls + 1,
                      requests |-> agent.requests + (IF r.request.t = "request" THEN 1 ELSE 0),
                      inFlight |-> IF r.request.t = "request"
                                   THEN Append(agent.inFlight, r.request)
                                   ELSE agent.inFlight,
                      ret |-> r.ret]
    /\ UNCHANGED <<pc, op, scoreVars, exitVars, engineVars, audit, handler, sidebar>>

\* The request of a call settles and the call runs to its end.
SendMessageSettles ==
    /\ op = "agent"
    /\ \E i \in 1..Len(agent.inFlight), outcome \in AgentOutcomes :
        LET r == sendMessageSettles(agent.this, outcome)
        IN  agent' = [agent EXCEPT
                        !.this = r.this,
                        !.inFlight = SubSeq(@, 1, i - 1) \o SubSeq(@, i + 1, Len(@)),
                        !.ret = r.ret]
    /\ UNCHANGED <<pc, op, scoreVars, exitVars, engineVars, audit, handler, sidebar>>

NextAgent == SendMessage \/ SendMessageSettles

SpecAgent == InitAgent /\ [][NextAgent]_vars

\* A step that is a call of sendMessage made while a request is in flight.
CallWhileInFlight == agent'.calls = agent.calls + 1 /\ agent.inFlight # <<>>

\* C24: isProcessing is a lock on sendMessage.  At most one request is in
\* flight, and isProcessing is set exactly while it is: it is false again
\* once the call has settled, by success or by any failure.  A call made
\* while a request is in flight returns null, appends nothing to
\* conversationHistory and issues no request.
C24_MessageLock ==
    /\ [](op = "agent" =>
            /\ Len(agent.inFlight) <= 1
            /\ agent.this.isProcessing <=> agent.inFlight # <<>>)
    /\ [][CallWhileInFlight =>
            /\ agent'.ret = NullReply
            /\ agent'.this.conversationHistory = agent.this.conversationHistory
            /\ agent'.requests = agent.requests
            /\ agent'.inFlight = agent.inFlight]_vars

\* A refused call, then the request in flight settled by a failure.
C24_Witness ==
    /\ op = "agent"
    /\ agent.calls = 2
    /\ agent.requests = 1
    /\ agent.inFlight = <<>>
    /\ ~agent.this.isProcessing
    /\ Len(agent.this.conversationHistory) = 1
    /\ agent.ret = Reply("Error: Unable to process your request. Agent error: 500")

----------------------------------------------------------------------------
(* Clicks on #calculate-btn and the calculations they start.               *)

MaxClicks == 2

\* What the user may have typed in #exit-amount when clicking.
AmountTexts == {"100", "25.5", ""}

\* What the two webhooks may answer.
RedemptionAnswers ==
    {[NoAnswer EXCEPT !.t = "error"],
     [NoAnswer EXCEPT !.t = "object", !.nav = D(98, 2), !.cooldownDays = D(7, 0)],
     [NoAnswer EXCEPT !.t = "object"]}
MarketAnswers ==
    {[NoAnswer EXCEPT !.t = "error"],
     [NoAnswer EXCEPT !.t = "object", !.price = D(1, 0),
                      !.liquidity = D(1000000, 0), !.dex = "uniswap-v4"]}

\* The pages the scripts may run on: either script alone, or both with
\* exit-optimizer.js loaded first, as handleCalculateExit expects.
ExitPages ==
    {[BlankExitPage EXCEPT !.listeners = l, !.panels = p, !.badge = b] :
        l \in {<<"optimizer">>, <<"arbitrage">>, <<"optimizer", "arbitrage">>},
        p \in BOOLEAN, b \in {"absent", "bare", "span"}}

InitHandler ==
    /\ pc = "page"
    /\ op = "exit"
    /\ ScoreIdle
    /\ ExitIdle
    /\ RiskCoreIdle
    /\ audit = AuditIdle
    /\ agent = AgentIdle
    /\ sidebar = SidebarIdle
    /\ \E p \in ExitPages : handler = [HandlerIdle EXCEPT !.page = p]

\* Whether a listener, run on a click with this text in #exit-amount, calls
\* calculateExit: the listener of exit-optimizer.js tests the text itself,
\* handleCalculateExit tests parseFloat of it.
Calculates(listener, text) ==
    IF listener = "optimizer" THEN text # ""
    ELSE ParseAmount(text).t = "number" /\ ParseAmount(text).m > 0

\* A click on #calculate-btn: every listener runs, and each that accepts the
\* input calls calculateExit, which issues its two fetches.  The listener of
\* exit-optimizer.js passes the text, which the arithmetic converts to the
\* number handleCalculateExit passes.
Click ==
    /\ op = "exit"
    /\ handler.clicks < MaxClicks
    /\ \E text \in AmountTexts :
        LET accepted(l) == Calculates(l, text)
            callers == SelectSeq(handler.page.listeners, accepted)
            started == [k \in 1..Len(callers) |->
                            [id |-> handler.calls + k, listener |-> callers[k],
                             assetType |-> "sUSDe", amount |-> ParseAmount(text)]]
            refused == \E k \in 1..Len(handler.page.listeners) :
                            /\ handler.page.listeners[k] = "arbitrage"
                            /\ ~Calculates("arbitrage", text)
        IN  handler' = [handler EXCEPT
                            !.clicks = @ + 1,
                            !.calls = @ + Len(callers),
                            !.inFlight = @ \o started,
                            !.latest = IF callers = <<>> THEN @
                                       ELSE [t |-> "pending", v |-> NoResult],
                            !.alert = IF refused THEN "Please enter a valid amount" ELSE @]
    /\ UNCHANGED <<pc, op, scoreVars, exitVars, engineVars, audit, agent, sidebar>>

\* The two fetches of an invocation of calculateExit have settled: the rest
\* of calculateExit runs, then the continuation of its caller.
ExitSettles ==
    /\ op = "exit"
    /\ \E i \in 1..Len(handler.inFlight),
          redemptionAnswer \in RedemptionAnswers, marketAnswer \in MarketAnswers :
        LET call == handler.inFlight[i]
            r == calculateExit(optimizer, handler.page, call.assetType, call.amount,
                               redemptionAnswer, marketAnswer)
        IN  handler' =
                [handler EXCEPT
                    !.page = r.page,
                    !.inFlight = SubSeq(@, 1, i - 1) \o SubSeq(@, i + 1, Len(@)),
                    !.latest = IF call.id = handler.calls
                               THEN [t |-> "settled", v |-> r.ret] ELSE @,
                    !.last = [t |-> "settled", id |-> call.id, amount |-> call.amount,
                              redemptionData |-> fetchRedemptionValue(redemptionAnswer),
                              marketData |-> fetchMarketPrice(marketAnswer),
                              ret |-> r.ret, before |-> handler.page.text,
                              dispatched |-> r.dispatched],
                    !.event = IF r.dispatched
                              THEN [count |-> @.count + 1, detail |-> r.ret] ELSE @,
                    !.alert = IF call.listener = "arbitrage" /\ ~r.ret.success
                              THEN "Calculation failed: " \o r.ret.error ELSE @]
    /\ UNCHANGED <<pc, op, scoreVars, exitVars, engineVars, audit, agent, sidebar>>

NextHandler == Click \/ ExitSettles

SpecHandler == InitHandler /\ [][NextHandler]_vars

ExitSettled == op = "exit" /\ handler.last.t = "settled"
BothFetched ==
    handler.last.redemptionData.t = "object" /\ handler.last.marketData.t = "object"

\* C25: calculateExit resolves to success with the input, both paths and
\* the comparison, and dispatches exitComparison, exactly when both fetches
\* returned data, whichever elements the page has; when a fetch returned
\* null it resolves to the failure 'Failed to fetch market data', renders
\* nothing and dispatches nothing.
C25_SuccessIffFetched ==
    ExitSettled =>
        LET call == handler.last
            redemptionPath_ ==
                calculateRedemptionPath(optimizer, call.amount, call.redemptionData).v
            marketPath_ == calculateMarketPath(optimizer, call.amount, call.marketData).v
        IN  /\ call.ret.success <=> BothFetched
            /\ call.dispatched <=> BothFetched
            /\ BothFetched =>
                /\ call.ret.input = [asset |-> "SUSDE", amount |-> call.amount]
                /\ call.ret.redemptionPath = redemptionPath_
                /\ call.ret.marketPath = marketPath_
                /\ call.ret.liquidityGain =
                        calculateLiquidityGain(optimizer, redemptionPath_, marketPath_)
                /\ handler.event.detail = call.ret
            /\ ~BothFetched =>
                /\ call.ret.error = "Failed to fetch market data"
                /\ handler.page.text = call.before

\* C26: when every calculation requested has finished and the one requested
\* last succeeded, the view shows that calculation and the last
\* exitComparison event carries it.
C26_LatestShown ==
    (op = "exit" /\ handler.inFlight = <<>> /\ handler.latest.t = "settled"
        /\ handler.latest.v.success) =>
        LET shown == handler.latest.v
        IN  /\ handler.event.detail = shown
            /\ renderComparison(handler.page, shown.input, shown.redemptionPath,
                                shown.marketPath, shown.liquidityGain).page.text
                    = handler.page.text

----------------------------------------------------------------------------
(* Opening and closing the agent panel.                                    *)

\* The pages the scripts run on: any of the elements present or absent, the
\* panel hidden or not in the markup.
PanelPages ==
    [panel : BOOLEAN, trigger : BOOLEAN, close : BOOLEAN, openAgent : BOOLEAN,
     input : BOOLEAN]

InitSidebar ==
    /\ pc = "page"
    /\ op = "panel"
    /\ ScoreIdle
    /\ ExitIdle
    /\ RiskCoreIdle
    /\ audit = AuditIdle
    /\ agent = AgentIdle
    /\ handler = HandlerIdle
    /\ \E p \in PanelPages, c \in {{}, {"hidden"}} :
        sidebar = [this |-> initialize(NewGlobalNairobiAgent, p),
                   classes |-> IF p.panel THEN c ELSE {},
                   page |-> p,
                   event |-> ""]

\* A click on #trigger-nairobi.
ClickTrigger ==
    /\ op = "panel"
    /\ sidebar.page.trigger
    /\ sidebar' = [(IF sidebar.this.modal THEN toggleModal(sidebar) ELSE sidebar)
                    EXCEPT !.event = "click #trigger-nairobi"]
    /\ UNCHANGED <<pc, op, scoreVars, exitVars, engineVars, audit, agent, handler>>

\* A click on #close-agent: the listener of the agent, then the listener of
\* the dashboard.
ClickClose ==
    /\ op = "panel"
    /\ sidebar.page.close
    /\ sidebar' = [dashboardClose(closeModal(sidebar)) EXCEPT !.event = "click #close-agent"]
    /\ UNCHANGED <<pc, op, scoreVars, exitVars, engineVars, audit, agent, handler>>

\* A click on the backdrop of the panel.
ClickBackdrop ==
    /\ op = "panel"
    /\ sidebar.page.panel
    /\ sidebar' = [dashboardClose(closeModal(sidebar)) EXCEPT !.event = "click #agent-panel"]
    /\ UNCHANGED <<pc, op, scoreVars, exitVars, engineVars, audit, agent, handler>>

\* A click on #open-agent.
ClickOpenAgent ==
    /\ op = "panel"
    /\ sidebar.page.openAgent
    /\ sidebar' = [dashboardOpen(sidebar) EXCEPT !.event = "click #open-agent"]
    /\ UNCHANGED <<pc, op, scoreVars, exitVars, engineVars, audit, agent, handler>>

\* Escape pressed, in #agent-input (the listener of the dashboard on the
\* input runs first) or elsewhere.
PressEscape ==
    /\ op = "panel"
    /\ \E inInput \in BOOLEAN :
        /\ inInput => sidebar.page.input
        /\ sidebar' = [agentKeydown(IF inInput THEN dashboardClose(sidebar) ELSE sidebar,
                                    "Escape")
                        EXCEPT !.event = "keydown Escape"]
    /\ UNCHANGED <<pc, op, scoreVars, exitVars, engineVars, audit, agent, handler>>

\* Ctrl+K or Cmd+K pressed: the listener of the sidebar, then the listener
\* of the agent.
PressCtrlK ==
    /\ op = "panel"
    /\ sidebar' = [agentKeydown(shortcutKeydown(sidebar), "k") EXCEPT !.event = "keydown Ctrl+K"]
    /\ UNCHANGED <<pc, op, scoreVars, exitVars, engineVars, audit, agent, handler>>

NextSidebar ==
    \/ ClickTrigger
    \/ ClickClose
    \/ ClickBackdrop
    \/ ClickOpenAgent
    \/ PressEscape
    \/ PressCtrlK

SpecSidebar == InitSidebar /\ [][NextSidebar]_vars

PanelOpen == "open" \in sidebar.classes

\* C29: after any sequence of the actions that open or close the panel,
\* isOpen is true exactly when the panel carries the class open, and every
\* press of Ctrl/Cmd+K flips the panel between open and closed.
C29_PanelInSync ==
    /\ []((op = "panel" /\ sidebar.page.panel) => (sidebar.this.isOpen <=> PanelOpen))
    /\ [][(PressCtrlK /\ sidebar.page.panel) => (PanelOpen' <=> ~PanelOpen)]_vars

====
